---- MODULE Spec2Model ----
(***************************************************************************)
(* ParaLink: a stateless smart-link redirector.                            *)
(*                                                                         *)
(* The model covers the payload codec (src/utils/payload.ts), the          *)
(* environment classifier (src/utils/environment.ts), the navigation       *)
(* strategy selector (src/utils/routing.ts) and the Link Resolution Flow   *)
(* (src/pages/Viewer.tsx, mounted by src/App.tsx).                         *)
(*                                                                         *)
(* JavaScript strings are sequences of UTF-16 code units (naturals).       *)
(* A function that can throw returns [ok |-> TRUE, v |-> value] or         *)
(* [ok |-> FALSE].                                                         *)
(***************************************************************************)
EXTENDS Integers, Sequences, FiniteSets, TLC

(***************************************************************************)
(* Text helpers                                                            *)
(***************************************************************************)
\* printable ASCII 32..95 and 97..126, in code order
CharsLow == " !\"#$%&'(" \o ")*+,-./0123456789:;<=>?@ABCDEFGHIJKLMNOPQRSTUVWXYZ[\\]^_"
CharsHigh == "abcdefghijklmnopqrstuvwxyz{|}~"

\* the code unit of a one-character literal
Ord(c) ==
  IF \E i \in 1..Len(CharsLow) : SubSeq(CharsLow, i, i) = c
  THEN 31 + (CHOOSE i \in 1..Len(CharsLow) : SubSeq(CharsLow, i, i) = c)
  ELSE 96 + (CHOOSE i \in 1..Len(CharsHigh) : SubSeq(CharsHigh, i, i) = c)

\* a string literal as a sequence of code units
ToCodes(s) == [i \in 1..Len(s) |-> Ord(SubSeq(s, i, i))]

\* F applied to the value of v, v computed once
Bind(v, F(_)) == CHOOSE r \in {F(x) : x \in {v}} : TRUE

Failure == [ok |-> FALSE]
Success(v) == [ok |-> TRUE, v |-> v]

Min(a, b) == IF a < b THEN a ELSE b

\* the concatenation of the sequences pieces[lo], ..., pieces[hi]
RECURSIVE FlattenRange(_, _, _)
FlattenRange(pieces, lo, hi) ==
  IF lo > hi THEN <<>>
  ELSE IF lo = hi THEN pieces[lo]
  ELSE LET mid == (lo + hi) \div 2 IN
       FlattenRange(pieces, lo, mid) \o FlattenRange(pieces, mid + 1, hi)

Flatten(pieces) == FlattenRange(pieces, 1, Len(pieces))

\* String.prototype.toLowerCase on ASCII letters
ToLowerUnit(c) == IF c >= 65 /\ c <= 90 THEN c + 32 ELSE c
ToLowerCase(s) == [i \in 1..Len(s) |-> ToLowerUnit(s[i])]

\* s has pat at position i (1-based)
MatchesAt(s, pat, i) ==
  /\ i >= 1
  /\ i + Len(pat) - 1 <= Len(s)
  /\ \A k \in 1..Len(pat) : s[i + k - 1] = pat[k]

\* String.prototype.includes
Includes(s, pat) == \E i \in 1..(Len(s) + 1) : MatchesAt(s, pat, i)

\* String.prototype.indexOf, 0-based, -1 when absent
IndexOf(s, pat) ==
  IF Includes(s, pat)
  THEN (CHOOSE i \in 1..(Len(s) + 1) :
          /\ MatchesAt(s, pat, i)
          /\ \A j \in 1..(i - 1) : ~MatchesAt(s, pat, j)) - 1
  ELSE -1

\* String.prototype.substring(from) with a 0-based index
SubstringFrom(s, from) == SubSeq(s, from + 1, Len(s))

\* white space removed by String.prototype.trim (ASCII and NBSP)
IsTrimSpace(c) == c \in {9, 10, 11, 12, 13, 32, 160}

RECURSIVE TrimStart(_)
TrimStart(s) ==
  IF s # <<>> /\ IsTrimSpace(Head(s)) THEN TrimStart(Tail(s)) ELSE s

RECURSIVE TrimEnd(_)
TrimEnd(s) ==
  IF s # <<>> /\ IsTrimSpace(s[Len(s)])
  THEN TrimEnd(SubSeq(s, 1, Len(s) - 1))
  ELSE s

\* String.prototype.trim
Trim(s) == TrimEnd(TrimStart(s))

IsDigit(c) == c >= 48 /\ c <= 57
IsHexDigit(c) == IsDigit(c) \/ (c >= 65 /\ c <= 70) \/ (c >= 97 /\ c <= 102)
HexVal(c) == IF IsDigit(c) THEN c - 48 ELSE IF c >= 97 THEN c - 87 ELSE c - 55
UpperHexDigit(n) == IF n < 10 THEN 48 + n ELSE 55 + n
LowerHexDigit(n) == IF n < 10 THEN 48 + n ELSE 87 + n

(***************************************************************************)
(* btoa / atob                                                             *)
(***************************************************************************)
B64Digit(n) ==
  IF n < 26 THEN 65 + n
  ELSE IF n < 52 THEN 71 + n
  ELSE IF n < 62 THEN n - 4
  ELSE IF n = 62 THEN 43 ELSE 47

IsB64Char(c) ==
  \/ c >= 65 /\ c <= 90
  \/ c >= 97 /\ c <= 122
  \/ IsDigit(c)
  \/ c = 43
  \/ c = 47

B64Value(c) ==
  IF c >= 65 /\ c <= 90 THEN c - 65
  ELSE IF c >= 97 /\ c <= 122 THEN c - 71
  ELSE IF IsDigit(c) THEN c + 4
  ELSE IF c = 43 THEN 62 ELSE 63

Pow64(k) == IF k = 0 THEN 1 ELSE IF k = 1 THEN 64 ELSE IF k = 2 THEN 4096 ELSE 262144
Pow256(k) == IF k = 0 THEN 1 ELSE IF k = 1 THEN 256 ELSE 65536

\* window.btoa: throws InvalidCharacterError on a code unit above 255
btoa(s) ==
  IF \E i \in 1..Len(s) : s[i] > 255
  THEN Failure
  ELSE LET n == Len(s)
           byte(i) == IF i <= n THEN s[i] ELSE 0
           unit(i) ==
             LET g == (i - 1) \div 4
                 k == (i - 1) % 4
                 v == byte(3 * g + 1) * 65536 + byte(3 * g + 2) * 256 + byte(3 * g + 3)
             IN  IF k = 2 /\ 3 * g + 2 > n THEN 61
                 ELSE IF k = 3 /\ 3 * g + 3 > n THEN 61
                 ELSE B64Digit((v \div Pow64(3 - k)) % 64)
       IN  Success([i \in 1..(4 * ((n + 2) \div 3)) |-> unit(i)])

IsAsciiWhitespace(c) == c \in {9, 10, 12, 13, 32}
NotAsciiWhitespace(c) == ~IsAsciiWhitespace(c)

\* window.atob (forgiving-base64 decode): throws on a character outside the
\* alphabet and on a length of 1 modulo 4
atob(s) ==
  LET stripped == SelectSeq(s, NotAsciiWhitespace)
      m == Len(stripped)
      unpadded ==
        IF m % 4 = 0 /\ m >= 2 /\ stripped[m] = 61
        THEN IF stripped[m - 1] = 61
             THEN SubSeq(stripped, 1, m - 2)
             ELSE SubSeq(stripped, 1, m - 1)
        ELSE stripped
      n == Len(unpadded)
      sextet(i) == IF i <= n THEN B64Value(unpadded[i]) ELSE 0
      byte(j) ==
        LET g == (j - 1) \div 3
            k == (j - 1) % 3
            v == sextet(4 * g + 1) * 262144 + sextet(4 * g + 2) * 4096
                   + sextet(4 * g + 3) * 64 + sextet(4 * g + 4)
        IN  (v \div Pow256(2 - k)) % 256
  IN  IF n % 4 = 1 \/ \E i \in 1..n : ~IsB64Char(unpadded[i])
      THEN Failure
      ELSE Success([j \in 1..((n * 6) \div 8) |-> byte(j)])

(***************************************************************************)
(* encodeURIComponent / decodeURIComponent / URLSearchParams               *)
(***************************************************************************)
PercentByte(b) == <<37, UpperHexDigit(b \div 16), UpperHexDigit(b % 16)>>

\* the UTF-8 octets of a code point
Utf8Bytes(cp) ==
  IF cp < 128 THEN <<cp>>
  ELSE IF cp < 2048 THEN <<192 + (cp \div 64), 128 + (cp % 64)>>
  ELSE IF cp < 65536
       THEN <<224 + (cp \div 4096), 128 + ((cp \div 64) % 64), 128 + (cp % 64)>>
       ELSE <<240 + (cp \div 262144), 128 + ((cp \div 4096) % 64),
              128 + ((cp \div 64) % 64), 128 + (cp % 64)>>

PercentAll(bytes) == Flatten([k \in 1..Len(bytes) |-> PercentByte(bytes[k])])

\* uriUnescaped of encodeURIComponent: alphanumerics and - _ . ! ~ * ' ( )
IsUriUnreserved(c) ==
  \/ c >= 65 /\ c <= 90
  \/ c >= 97 /\ c <= 122
  \/ IsDigit(c)
  \/ c \in {45, 95, 46, 33, 126, 42, 39, 40, 41}

IsHighSurrogate(c) == c >= 55296 /\ c <= 56319
IsLowSurrogate(c) == c >= 56320 /\ c <= 57343

\* a surrogate at position i of s that has no partner
IsLoneSurrogate(s, i) ==
  \/ /\ IsHighSurrogate(s[i])
     /\ ~(i + 1 <= Len(s) /\ IsLowSurrogate(s[i + 1]))
  \/ /\ IsLowSurrogate(s[i])
     /\ ~(i - 1 >= 1 /\ IsHighSurrogate(s[i - 1]))

\* what encodeURIComponent emits for the code unit at position i: the escaped
\* UTF-8 octets of its code point (a pair is emitted at its high surrogate)
EncodedUnit(s, i) ==
  LET c == s[i] IN
  IF IsUriUnreserved(c) THEN <<c>>
  ELSE IF IsHighSurrogate(c)
       THEN PercentAll(Utf8Bytes(65536 + (c - 55296) * 1024 + (s[i + 1] - 56320)))
  ELSE IF IsLowSurrogate(c) THEN <<>>
  ELSE PercentAll(Utf8Bytes(c))

\* encodeURIComponent: throws URIError on a lone surrogate
encodeURIComponent(s) ==
  IF \E i \in 1..Len(s) : IsLoneSurrogate(s, i)
  THEN Failure
  ELSE Success(Flatten([i \in 1..Len(s) |-> EncodedUnit(s, i)]))

\* s has an escape %XX at position i
IsEscapeAt(s, i) ==
  /\ i >= 1
  /\ i + 2 <= Len(s)
  /\ s[i] = 37
  /\ IsHexDigit(s[i + 1])
  /\ IsHexDigit(s[i + 2])

EscapeByteAt(s, i) == HexVal(s[i + 1]) * 16 + HexVal(s[i + 2])

\* number of octets announced by a UTF-8 lead octet, 0 when it is not one
Utf8Length(b) ==
  IF b < 128 THEN 1
  ELSE IF b >= 192 /\ b < 224 THEN 2
  ELSE IF b >= 224 /\ b < 240 THEN 3
  ELSE IF b >= 240 /\ b < 248 THEN 4
  ELSE 0

IsContinuation(b) == b >= 128 /\ b < 192

\* the code point of a complete UTF-8 sequence
Utf8CodePoint(bytes) ==
  IF Len(bytes) = 1 THEN bytes[1]
  ELSE IF Len(bytes) = 2 THEN (bytes[1] - 192) * 64 + (bytes[2] - 128)
  ELSE IF Len(bytes) = 3
       THEN (bytes[1] - 224) * 4096 + (bytes[2] - 128) * 64 + (bytes[3] - 128)
       ELSE (bytes[1] - 240) * 262144 + (bytes[2] - 128) * 4096
              + (bytes[3] - 128) * 64 + (bytes[4] - 128)

\* a well-formed UTF-8 sequence: continuation octets, shortest form, no
\* surrogate, at most U+10FFFF
IsWellFormedUtf8(bytes) ==
  /\ Len(bytes) >= 1
  /\ Utf8Length(bytes[1]) = Len(bytes)
  /\ \A k \in 2..Len(bytes) : IsContinuation(bytes[k])
  /\ LET cp == Utf8CodePoint(bytes) IN
       /\ Len(bytes) = 2 => cp >= 128
       /\ Len(bytes) = 3 => cp >= 2048 /\ ~(cp >= 55296 /\ cp <= 57343)
       /\ Len(bytes) = 4 => cp >= 65536 /\ cp <= 1114111

\* a code point as UTF-16 code units
Utf16Units(cp) ==
  IF cp < 65536 THEN <<cp>>
  ELSE <<55296 + ((cp - 65536) \div 1024), 56320 + ((cp - 65536) % 1024)>>

\* the octets of the escapes %XX%XX... that a lead escape at i announces
EscapedSequenceAt(s, i) ==
  [k \in 1..Utf8Length(EscapeByteAt(s, i)) |-> EscapeByteAt(s, i + 3 * (k - 1))]

\* the escape at i starts a character: its octet is a lead octet and the
\* escapes it announces follow and form well-formed UTF-8
StartsEscapedChar(s, i) ==
  /\ IsEscapeAt(s, i)
  /\ LET n == Utf8Length(EscapeByteAt(s, i)) IN
       /\ n >= 1
       /\ \A k \in 1..(n - 1) : IsEscapeAt(s, i + 3 * k)
       /\ IsWellFormedUtf8(EscapedSequenceAt(s, i))

\* the escape at i is a continuation octet of a character started by an
\* escape one, two or three escapes earlier
ContinuesEscapedChar(s, i) ==
  /\ IsEscapeAt(s, i)
  /\ IsContinuation(EscapeByteAt(s, i))
  /\ \E k \in 1..3 :
       /\ StartsEscapedChar(s, i - 3 * k)
       /\ Utf8Length(EscapeByteAt(s, i - 3 * k)) > k

\* position i holds a hex digit of an escape that starts at i-1 or i-2
InsideEscape(s, i) == IsEscapeAt(s, i - 1) \/ IsEscapeAt(s, i - 2)

\* what decodeURIComponent emits for position i
DecodedUnit(s, i) ==
  IF s[i] = 37
  THEN IF StartsEscapedChar(s, i)
       THEN Utf16Units(Utf8CodePoint(EscapedSequenceAt(s, i)))
       ELSE <<>>
  ELSE IF InsideEscape(s, i) THEN <<>> ELSE <<s[i]>>

\* decodeURIComponent: throws URIError on a '%' that neither starts nor
\* continues a well-formed escaped character
decodeURIComponent(s) ==
  IF \E i \in 1..Len(s) :
       s[i] = 37 /\ ~StartsEscapedChar(s, i) /\ ~ContinuesEscapedChar(s, i)
  THEN Failure
  ELSE Success(Flatten([i \in 1..Len(s) |-> DecodedUnit(s, i)]))

\* application/x-www-form-urlencoded percent-decoding to octets: '+' is a
\* space, a malformed escape is kept as it is
FormDecodedBytes(s, i) ==
  IF s[i] = 43 THEN <<32>>
  ELSE IF IsEscapeAt(s, i) THEN <<EscapeByteAt(s, i)>>
  ELSE IF InsideEscape(s, i) THEN <<>>
  ELSE IF IsLoneSurrogate(s, i) THEN Utf8Bytes(65533)
  ELSE IF IsHighSurrogate(s[i])
       THEN Utf8Bytes(65536 + (s[i] - 55296) * 1024 + (s[i + 1] - 56320))
  ELSE IF IsLowSurrogate(s[i]) THEN <<>>
  ELSE Utf8Bytes(s[i])

\* the well-formed UTF-8 sequence that starts at octet i, if any
SequenceAt(bytes, i) ==
  SubSeq(bytes, i, Min(i + Utf8Length(bytes[i]) - 1, Len(bytes)))

StartsChar(bytes, i) ==
  /\ i >= 1
  /\ i <= Len(bytes)
  /\ IsWellFormedUtf8(SequenceAt(bytes, i))

ContinuesChar(bytes, i) ==
  \E k \in 1..3 : StartsChar(bytes, i - k) /\ Utf8Length(bytes[i - k]) > k

\* UTF-8 decoding with U+FFFD in place of an octet that belongs to no
\* well-formed sequence
Utf8DecodedUnit(bytes, i) ==
  IF StartsChar(bytes, i) THEN Utf16Units(Utf8CodePoint(SequenceAt(bytes, i)))
  ELSE IF ContinuesChar(bytes, i) THEN <<>>
  ELSE <<65533>>

FormDecode(s) ==
  LET bytes == Flatten([i \in 1..Len(s) |-> FormDecodedBytes(s, i)]) IN
  Flatten([i \in 1..Len(bytes) |-> Utf8DecodedUnit(bytes, i)])

\* the pieces of s between occurrences of the unit sep
RECURSIVE SplitOn(_, _)
SplitOn(s, sep) ==
  IF \E i \in 1..Len(s) : s[i] = sep
  THEN LET i == CHOOSE i \in 1..Len(s) :
                  s[i] = sep /\ \A j \in 1..(i - 1) : s[j] # sep
       IN  <<SubSeq(s, 1, i - 1)>> \o SplitOn(SubSeq(s, i + 1, Len(s)), sep)
  ELSE <<s>>

\* one name/value pair of a query string
ParsePair(piece) ==
  LET eq == IndexOf(piece, <<61>>) IN
  IF eq = -1
  THEN [name |-> FormDecode(piece), value |-> <<>>]
  ELSE [name |-> FormDecode(SubSeq(piece, 1, eq)),
        value |-> FormDecode(SubstringFrom(piece, eq + 1))]

NonEmptySeq(s) == s # <<>>

\* new URLSearchParams(query).get(name): the first value, or null
URLSearchParamsGet(query, name) ==
  LET q == IF query # <<>> /\ query[1] = 63 THEN Tail(query) ELSE query
      pieces == SelectSeq(SplitOn(q, 38), NonEmptySeq)
      pairs == [i \in 1..Len(pieces) |-> ParsePair(pieces[i])]
  IN  IF \E i \in 1..Len(pairs) : pairs[i].name = name
      THEN Success(pairs[CHOOSE i \in 1..Len(pairs) :
                     /\ pairs[i].name = name
                     /\ \A j \in 1..(i - 1) : pairs[j].name # name].value)
      ELSE Failure

(***************************************************************************)
(* JavaScript values and JSON                                              *)
(***************************************************************************)
Undefined == [t |-> "undefined"]
Null == [t |-> "null"]
JBool(b) == [t |-> "bool", b |-> b]
JStr(s) == [t |-> "str", s |-> s]
\* a number, kept as its literal text
JNum(text) == [t |-> "num", s |-> text]
JArr(a) == [t |-> "arr", a |-> a]
\* an object: its own keys in insertion order, and their values
JObj(k, v) == [t |-> "obj", k |-> k, v |-> v]

IsString(x) == x.t = "str"
IsArray(x) == x.t = "arr"

\* property read x[key]; undefined when x is no object or has no such key
Get(x, key) ==
  IF x.t = "obj" /\ \E i \in 1..Len(x.k) : x.k[i] = key
  THEN x.v[CHOOSE i \in 1..Len(x.k) : x.k[i] = key]
  ELSE Undefined

\* property write on an object under construction: a repeated key keeps its
\* place and takes the new value
ObjPut(o, key, val) ==
  IF \E i \in 1..Len(o.k) : o.k[i] = key
  THEN JObj(o.k, [o.v EXCEPT ![CHOOSE i \in 1..Len(o.k) : o.k[i] = key] = val])
  ELSE JObj(Append(o.k, key), Append(o.v, val))

\* the literal text of a number is zero
IsZeroText(text) ==
  LET e == IF \E i \in 1..Len(text) : text[i] \in {69, 101}
           THEN CHOOSE i \in 1..Len(text) :
                  text[i] \in {69, 101} /\ \A j \in 1..(i - 1) : text[j] \notin {69, 101}
           ELSE Len(text) + 1
  IN  \A i \in 1..(e - 1) : text[i] \in {45, 46, 48}

\* ToBoolean
Truthy(x) ==
  IF x.t \in {"undefined", "null"} THEN FALSE
  ELSE IF x.t = "bool" THEN x.b
  ELSE IF x.t = "str" THEN x.s # <<>>
  ELSE IF x.t = "num" THEN ~IsZeroText(x.s)
  ELSE TRUE

UnicodeEscape(c) ==
  <<92, 117, LowerHexDigit(c \div 4096), LowerHexDigit((c \div 256) % 16),
    LowerHexDigit((c \div 16) % 16), LowerHexDigit(c % 16)>>

\* the JSON text of one code unit inside a string literal
QuoteUnit(s, i) ==
  LET c == s[i] IN
  IF c = 34 THEN <<92, 34>>
  ELSE IF c = 92 THEN <<92, 92>>
  ELSE IF c = 8 THEN <<92, 98>>
  ELSE IF c = 12 THEN <<92, 102>>
  ELSE IF c = 10 THEN <<92, 110>>
  ELSE IF c = 13 THEN <<92, 114>>
  ELSE IF c = 9 THEN <<92, 116>>
  ELSE IF c < 32 \/ IsLoneSurrogate(s, i) THEN UnicodeEscape(c)
  ELSE <<c>>

\* QuoteJSONString
QuoteJSONString(s) ==
  <<34>> \o Flatten([i \in 1..Len(s) |-> QuoteUnit(s, i)]) \o <<34>>

RECURSIVE JSONStringify(_)
RECURSIVE StringifyElems(_, _)
RECURSIVE StringifyMembers(_, _, _)

\* the elements of an array from index i on, comma separated
StringifyElems(a, i) ==
  IF i > Len(a) THEN <<>>
  ELSE (IF i > 1 THEN <<44>> ELSE <<>>)
       \o (IF a[i].t = "undefined" THEN ToCodes("null") ELSE JSONStringify(a[i]))
       \o StringifyElems(a, i + 1)

\* the members of an object from index i on; a member whose value is
\* undefined is left out
StringifyMembers(o, i, first) ==
  IF i > Len(o.k) THEN <<>>
  ELSE IF o.v[i].t = "undefined" THEN StringifyMembers(o, i + 1, first)
  ELSE (IF first THEN <<>> ELSE <<44>>)
       \o QuoteJSONString(o.k[i]) \o <<58>> \o JSONStringify(o.v[i])
       \o StringifyMembers(o, i + 1, FALSE)

\* JSON.stringify of a defined value
JSONStringify(x) ==
  IF x.t = "null" THEN ToCodes("null")
  ELSE IF x.t = "bool" THEN (IF x.b THEN ToCodes("true") ELSE ToCodes("false"))
  ELSE IF x.t = "num" THEN x.s
  ELSE IF x.t = "str" THEN QuoteJSONString(x.s)
  ELSE IF x.t = "arr" THEN <<91>> \o StringifyElems(x.a, 1) \o <<93>>
  ELSE <<123>> \o StringifyMembers(x, 1, TRUE) \o <<125>>

ParseFailure == [ok |-> FALSE]
Parsed(v, next) == [ok |-> TRUE, v |-> v, next |-> next]

IsJsonSpace(c) == c \in {9, 10, 13, 32}

\* the first position from i on that holds no white space
SkipSpace(s, i) ==
  CHOOSE j \in i..(Len(s) + 1) :
    /\ j > Len(s) \/ ~IsJsonSpace(s[j])
    /\ \A k \in i..(j - 1) : IsJsonSpace(s[k])

\* the first position from i on that holds no digit
DigitsEnd(s, i) ==
  CHOOSE j \in i..(Len(s) + 1) :
    /\ j > Len(s) \/ ~IsDigit(s[j])
    /\ \A k \in i..(j - 1) : IsDigit(s[k])

HasDigitAt(s, i) == i <= Len(s) /\ IsDigit(s[i])

\* a JSON number starting at i
ParseNumber(s, i) ==
  LET j0 == IF s[i] = 45 THEN i + 1 ELSE i
      j1 == IF HasDigitAt(s, j0) /\ s[j0] = 48 THEN j0 + 1 ELSE DigitsEnd(s, j0)
      hasFrac == j1 <= Len(s) /\ s[j1] = 46
      j2 == IF hasFrac THEN DigitsEnd(s, j1 + 1) ELSE j1
      hasExp == j2 <= Len(s) /\ s[j2] \in {69, 101}
      j3 == IF hasExp /\ j2 + 1 <= Len(s) /\ s[j2 + 1] \in {43, 45}
            THEN j2 + 2 ELSE j2 + 1
      j4 == IF hasExp THEN DigitsEnd(s, j3) ELSE j2
  IN  IF ~HasDigitAt(s, j0) THEN ParseFailure
      ELSE IF hasFrac /\ ~HasDigitAt(s, j1 + 1) THEN ParseFailure
      ELSE IF hasExp /\ ~HasDigitAt(s, j3) THEN ParseFailure
      ELSE Parsed(JNum(SubSeq(s, i, j4 - 1)), j4)

\* the number of backslashes that end right before position j, counted no
\* further back than position from
BackslashRun(s, from, j) ==
  CHOOSE k \in 0..(j - from) :
    /\ \A m \in 1..k : s[j - m] = 92
    /\ k = j - from \/ s[j - k - 1] # 92

\* inside a string literal whose body starts at from, position j is not
\* escaped by a backslash
Unescaped(s, from, j) == BackslashRun(s, from, j) % 2 = 0

\* position j starts an escape sequence of the body
StartsJsonEscape(s, from, j) == j >= from /\ s[j] = 92 /\ Unescaped(s, from, j)

\* position j starts a well-formed escape sequence
IsJsonEscapeAt(s, from, close, j) ==
  /\ StartsJsonEscape(s, from, j)
  /\ j + 1 < close
  /\ \/ s[j + 1] \in {34, 92, 47, 98, 102, 110, 114, 116}
     \/ /\ s[j + 1] = 117
        /\ j + 5 < close
        /\ \A k \in 2..5 : IsHexDigit(s[j + k])

\* position j belongs to an escape sequence that starts before it
InsideJsonEscape(s, from, j) ==
  \/ StartsJsonEscape(s, from, j - 1)
  \/ \E k \in 2..5 : StartsJsonEscape(s, from, j - k) /\ s[j - k + 1] = 117

\* the code unit an escape sequence at j stands for
JsonEscapeValue(s, j) ==
  LET e == s[j + 1] IN
  IF e = 98 THEN 8
  ELSE IF e = 102 THEN 12
  ELSE IF e = 110 THEN 10
  ELSE IF e = 114 THEN 13
  ELSE IF e = 116 THEN 9
  ELSE IF e = 117
       THEN HexVal(s[j + 2]) * 4096 + HexVal(s[j + 3]) * 256
              + HexVal(s[j + 4]) * 16 + HexVal(s[j + 5])
  ELSE e

\* what position j of a string body contributes to the string
JsonStringUnit(s, from, j) ==
  IF StartsJsonEscape(s, from, j) THEN <<JsonEscapeValue(s, j)>>
  ELSE IF InsideJsonEscape(s, from, j) THEN <<>>
  ELSE <<s[j]>>

\* the characters of a JSON string literal whose body starts at i, up to its
\* closing quote
ParseStringBody(s, i) ==
  IF ~\E j \in i..Len(s) : s[j] = 34 /\ Unescaped(s, i, j)
  THEN ParseFailure
  ELSE LET close == CHOOSE j \in i..Len(s) :
                      /\ s[j] = 34 /\ Unescaped(s, i, j)
                      /\ \A k \in i..(j - 1) : ~(s[k] = 34 /\ Unescaped(s, i, k))
       IN  IF \E j \in i..(close - 1) :
                \/ s[j] < 32
                \/ StartsJsonEscape(s, i, j) /\ ~IsJsonEscapeAt(s, i, close, j)
           THEN ParseFailure
           ELSE Parsed(Flatten([k \in 1..(close - i) |->
                                  JsonStringUnit(s, i, i + k - 1)]),
                       close + 1)

RECURSIVE ParseValue(_, _)
RECURSIVE ParseElems(_, _, _)
RECURSIVE ParseMembers(_, _, _)

\* array elements, i at the first unit of an element
ParseElems(s, i, acc) ==
  Bind(ParseValue(s, i), LAMBDA el :
    IF ~el.ok THEN ParseFailure
    ELSE Bind(SkipSpace(s, el.next), LAMBDA j :
           IF j > Len(s) THEN ParseFailure
           ELSE IF s[j] = 44 THEN ParseElems(s, SkipSpace(s, j + 1), Append(acc, el.v))
           ELSE IF s[j] = 93 THEN Parsed(JArr(Append(acc, el.v)), j + 1)
           ELSE ParseFailure))

\* object members, i at the opening quote of a key
ParseMembers(s, i, acc) ==
  IF i > Len(s) \/ s[i] # 34 THEN ParseFailure
  ELSE Bind(ParseStringBody(s, i + 1), LAMBDA key :
         IF ~key.ok THEN ParseFailure
         ELSE Bind(SkipSpace(s, key.next), LAMBDA c :
                IF c > Len(s) \/ s[c] # 58 THEN ParseFailure
                ELSE Bind(ParseValue(s, SkipSpace(s, c + 1)), LAMBDA val :
                       IF ~val.ok THEN ParseFailure
                       ELSE Bind(SkipSpace(s, val.next), LAMBDA j :
                              IF j > Len(s) THEN ParseFailure
                              ELSE IF s[j] = 44
                                   THEN ParseMembers(s, SkipSpace(s, j + 1),
                                                     ObjPut(acc, key.v, val.v))
                              ELSE IF s[j] = 125
                                   THEN Parsed(ObjPut(acc, key.v, val.v), j + 1)
                              ELSE ParseFailure))))

\* a JSON value starting at i
ParseValue(s, i) ==
  IF i > Len(s) THEN ParseFailure
  ELSE IF s[i] = 123
       THEN Bind(SkipSpace(s, i + 1), LAMBDA j :
              IF j <= Len(s) /\ s[j] = 125 THEN Parsed(JObj(<<>>, <<>>), j + 1)
              ELSE ParseMembers(s, j, JObj(<<>>, <<>>)))
  ELSE IF s[i] = 91
       THEN Bind(SkipSpace(s, i + 1), LAMBDA j :
              IF j <= Len(s) /\ s[j] = 93 THEN Parsed(JArr(<<>>), j + 1)
              ELSE ParseElems(s, j, <<>>))
  ELSE IF s[i] = 34
       THEN Bind(ParseStringBody(s, i + 1), LAMBDA str :
              IF str.ok THEN Parsed(JStr(str.v), str.next) ELSE ParseFailure)
  ELSE IF MatchesAt(s, ToCodes("true"), i) THEN Parsed(JBool(TRUE), i + 4)
  ELSE IF MatchesAt(s, ToCodes("false"), i) THEN Parsed(JBool(FALSE), i + 5)
  ELSE IF MatchesAt(s, ToCodes("null"), i) THEN Parsed(Null, i + 4)
  ELSE IF s[i] = 45 \/ IsDigit(s[i]) THEN ParseNumber(s, i)
  ELSE ParseFailure

\* JSON.parse: throws SyntaxError on text that is not one JSON value
JSONParse(s) ==
  Bind(ParseValue(s, SkipSpace(s, 1)), LAMBDA r :
    IF r.ok /\ SkipSpace(s, r.next) > Len(s) THEN Success(r.v) ELSE Failure)

(***************************************************************************)
(* src/utils/payload.ts                                                    *)
(***************************************************************************)
\* how a call ends: with a returned value, or with an exception thrown to
\* the caller
Returned(v) == [kind |-> "return", v |-> v]
Thrown == [kind |-> "throw"]

K_mode == ToCodes("mode")
K_url == ToCodes("url")
K_title == ToCodes("title")
K_profileName == ToCodes("profileName")
K_links == ToCodes("links")
S_direct == ToCodes("direct")
S_bio == ToCodes("bio")

\* a console.log or console.error call, by the text it starts with
Entry(level, text) == [level |-> level, text |-> text]

\* if (import.meta.env.DEV) { console.<level>(text, ...) }
DevOnly(DEV, level, text) == IF DEV THEN {Entry(level, text)} ELSE {}

\* the console calls of encodePayload(data): the catch block logs
encodePayloadConsole(data) ==
  Bind(btoa(JSONStringify(data)), LAMBDA b :
    IF b.ok THEN {} ELSE {Entry("error", "Encoding failed")})

\* a faulty encodePayload: a failed encoding is not reported as ''
encodePayloadNoMarker(data) ==
  Bind(JSONStringify(data), LAMBDA json :
    Bind(btoa(json), LAMBDA b :
      IF b.ok THEN Returned(JStr(b.v)) ELSE Returned(JStr(json))))

\* encodePayload: btoa(JSON.stringify(data)), '' when that throws
encodePayload(data) ==
  Bind(JSONStringify(data), LAMBDA json :
    Bind(btoa(json), LAMBDA b :
      IF b.ok THEN Returned(JStr(b.v)) ELSE Returned(JStr(<<>>))))

\* the first try block of decodePayload
DecodeDirect(base64) ==
  Bind(atob(base64), LAMBDA json :
    IF json.ok THEN JSONParse(json.v) ELSE Failure)

\* the try block inside the catch of decodePayload
DecodeUrlDecoded(base64) ==
  Bind(decodeURIComponent(base64), LAMBDA urlDecoded :
    IF ~urlDecoded.ok THEN Failure
    ELSE Bind(atob(urlDecoded.v), LAMBDA json :
           IF json.ok THEN JSONParse(json.v) ELSE Failure))

\* a faulty decodePayload: no retry with the percent-decoded token
decodePayloadNoRetry(base64) ==
  IF ~Truthy(base64) \/ ~IsString(base64) THEN Returned(Null)
  ELSE Bind(DecodeDirect(base64.s), LAMBDA first :
         IF first.ok THEN Returned(first.v) ELSE Returned(Null))

\* a faulty decodePayload: the retry is not wrapped in a try block of its own
decodePayloadUncaught(base64) ==
  IF ~Truthy(base64) \/ ~IsString(base64) THEN Returned(Null)
  ELSE Bind(DecodeDirect(base64.s), LAMBDA first :
         IF first.ok THEN Returned(first.v)
         ELSE Bind(DecodeUrlDecoded(base64.s), LAMBDA second :
                IF second.ok THEN Returned(second.v) ELSE Thrown))

\* decodePayload: the parsed value, or null
decodePayload(base64) ==
  IF ~Truthy(base64) \/ ~IsString(base64) THEN Returned(Null)
  ELSE Bind(DecodeDirect(base64.s), LAMBDA first :
         IF first.ok THEN Returned(first.v)
         ELSE Bind(DecodeUrlDecoded(base64.s), LAMBDA second :
                IF second.ok THEN Returned(second.v) ELSE Returned(Null)))

\* the console calls of decodePayload(base64): the inner catch block logs
\* when the build has the DEV flag
decodePayloadConsole(base64, DEV) ==
  IF ~Truthy(base64) \/ ~IsString(base64) THEN {}
  ELSE Bind(DecodeDirect(base64.s), LAMBDA first :
         IF first.ok THEN {}
         ELSE Bind(DecodeUrlDecoded(base64.s), LAMBDA second :
                IF second.ok THEN {} ELSE DevOnly(DEV, "error", "Decoding failed.")))

\* the longest prefix of s holding none of the units in stops
PrefixBefore(s, stops) ==
  IF \E i \in 1..Len(s) : s[i] \in stops
  THEN SubSeq(s, 1, (CHOOSE i \in 1..Len(s) :
                       s[i] \in stops /\ \A j \in 1..(i - 1) : s[j] \notin stops) - 1)
  ELSE s

\* new URL(href).origin for an http or https address: scheme and host in
\* lower case; throws when href is no such address
UrlOrigin(href) ==
  LET lower == ToLowerCase(href)
      scheme == IF MatchesAt(lower, ToCodes("https://"), 1) THEN ToCodes("https://")
                ELSE IF MatchesAt(lower, ToCodes("http://"), 1) THEN ToCodes("http://")
                ELSE <<>>
      host == PrefixBefore(SubstringFrom(lower, Len(scheme)), {47, 63, 35})
  IN  IF scheme = <<>> \/ host = <<>> THEN Failure ELSE Success(scheme \o host)

\* getCleanOrigin, of window.location.href
getCleanOrigin(locationHref) ==
  LET href == IF MatchesAt(locationHref, ToCodes("blob:"), 1)
              THEN SubstringFrom(locationHref, 5) ELSE locationHref
      plain == PrefixBefore(PrefixBefore(href, {63}), {35})
  IN  Bind(UrlOrigin(href), LAMBDA url :
        IF url.ok THEN url.v
        ELSE IF plain # <<>> /\ plain[Len(plain)] = 47
             THEN SubSeq(plain, 1, Len(plain) - 1) ELSE plain)

\* generateParaLink, of the payload and window.location.href
generateParaLink(data, locationHref) ==
  Bind(encodePayload(data), LAMBDA encoded :
    getCleanOrigin(locationHref) \o ToCodes("/#/go?p=") \o encoded.v.s)

(***************************************************************************)
(* src/utils/environment.ts                                                *)
(***************************************************************************)
\* the alternatives of IN_APP_REGEX, in the order of the pattern
InAppSignatures ==
  <<ToCodes("TikTok"), ToCodes("Instagram"), ToCodes("Twitter"),
    ToCodes("Snapchat"), ToCodes("Reddit"), ToCodes("Telegram"),
    ToCodes("Facebook"), ToCodes("FBAV"), ToCodes("FBAN"),
    ToCodes("Messenger"), ToCodes("Threads"), ToCodes("Line"),
    ToCodes("WhatsApp"), ToCodes("LinkedIn"), ToCodes("Twitch"),
    ToCodes("musical_ly")>>

\* pat occurs at position i of s, letter case ignored (the i flag)
MatchesAtIgnoreCase(s, pat, i) ==
  /\ i >= 1
  /\ i + Len(pat) - 1 <= Len(s)
  /\ \A k \in 1..Len(pat) : ToLowerUnit(s[i + k - 1]) = ToLowerUnit(pat[k])

IncludesIgnoreCase(s, pat) == \E i \in 1..Len(s) : MatchesAtIgnoreCase(s, pat, i)

\* some alternative of IN_APP_REGEX matches at position i
InAppMatchesAt(s, i) ==
  \E a \in 1..Len(InAppSignatures) : MatchesAtIgnoreCase(s, InAppSignatures[a], i)

\* IN_APP_REGEX.test(userAgent)
InAppTest(s) == \E i \in 1..Len(s) : InAppMatchesAt(s, i)

\* a faulty match: the signature as written in the pattern, not the text matched
InAppMatchCanonical(s) ==
  LET i == CHOOSE i \in 1..Len(s) :
             InAppMatchesAt(s, i) /\ \A j \in 1..(i - 1) : ~InAppMatchesAt(s, j)
      a == CHOOSE a \in 1..Len(InAppSignatures) :
             MatchesAtIgnoreCase(s, InAppSignatures[a], i)
  IN  InAppSignatures[a]

\* userAgent.match(IN_APP_REGEX)[0]: the text matched at the leftmost
\* position, by the first alternative that matches there
InAppMatch(s) ==
  LET i == CHOOSE i \in 1..Len(s) :
             InAppMatchesAt(s, i) /\ \A j \in 1..(i - 1) : ~InAppMatchesAt(s, j)
      a == CHOOSE a \in 1..Len(InAppSignatures) :
             /\ MatchesAtIgnoreCase(s, InAppSignatures[a], i)
             /\ \A b \in 1..(a - 1) : ~MatchesAtIgnoreCase(s, InAppSignatures[b], i)
  IN  SubSeq(s, i, i + Len(InAppSignatures[a]) - 1)

\* /iPad|iPhone|iPod/.test(userAgent)
AppleDeviceTest(s) ==
  \/ Includes(s, ToCodes("iPad"))
  \/ Includes(s, ToCodes("iPhone"))
  \/ Includes(s, ToCodes("iPod"))

\* detectEnvironment, of navigator.userAgent and window.MSStream
detectEnvironment(userAgentString, MSStream) ==
  LET os == IF IncludesIgnoreCase(userAgentString, ToCodes("android")) THEN "ANDROID"
            ELSE IF AppleDeviceTest(userAgentString) /\ ~MSStream THEN "IOS"
            ELSE "DESKTOP"
      inApp == InAppTest(userAgentString)
  IN  [os |-> os,
       browserType |-> IF inApp THEN "IN_APP" ELSE "REAL_BROWSER",
       isInAppBrowser |-> inApp,
       appName |-> IF inApp THEN InAppMatch(userAgentString) ELSE ToCodes("Web")]

\* isRealBrowser
isRealBrowser(userAgentString, MSStream) ==
  detectEnvironment(userAgentString, MSStream).browserType = "REAL_BROWSER"

\* navigator.userAgent || navigator.vendor || window.opera: the first operand
\* that is not the empty string, else the last one
EffectiveUserAgent(nav) ==
  IF nav.userAgent # <<>> THEN JStr(nav.userAgent)
  ELSE IF nav.vendor # <<>> THEN JStr(nav.vendor)
  ELSE nav.opera

\* a call of detectEnvironment() in a browser with the navigator nav: when
\* the value read is no string the RegExp tests work on its conversion to a
\* string, and userAgent.match(...) raises a TypeError
detectEnvironmentCall(nav) ==
  Bind(EffectiveUserAgent(nav), LAMBDA userAgentValue :
    IF IsString(userAgentValue)
    THEN Returned(detectEnvironment(userAgentValue.s, nav.MSStream))
    ELSE Thrown)

(***************************************************************************)
(* src/utils/routing.ts                                                    *)
(*                                                                         *)
(* A function with side effects returns the sequence of the calls it makes *)
(* on the browser, in program order, as events.                            *)
(***************************************************************************)
Event(op, url, target, anchor) ==
  [op |-> op, url |-> url, target |-> target, anchor |-> anchor]

\* a call of detectEnvironment
DetectEvent == Event("detectEnvironment", Undefined, "", 0)

\* generateAndroidIntent: throws when encodeURIComponent does
generateAndroidIntent(destination) ==
  LET cleanDest == Trim(destination)
      encodedDest == encodeURIComponent(cleanDest)
      schemeUrl ==
        IF MatchesAt(cleanDest, ToCodes("https://"), 1) THEN SubstringFrom(cleanDest, 8)
        ELSE IF MatchesAt(cleanDest, ToCodes("http://"), 1) THEN SubstringFrom(cleanDest, 7)
        ELSE cleanDest
  IN  IF ~encodedDest.ok THEN Failure
      ELSE Success(ToCodes("intent://") \o schemeUrl
                   \o ToCodes("#Intent;scheme=https;package=com.android.chrome;S.browser_fallback_url=")
                   \o encodedDest.v \o ToCodes(";end;"))

\* shouldShowBrowserTransition: the value returned and the calls made
shouldShowBrowserTransition(userAgentString, MSStream) ==
  LET env == detectEnvironment(userAgentString, MSStream) IN
  [ev |-> <<DetectEvent, DetectEvent>>,
   v |-> IF isRealBrowser(userAgentString, MSStream) THEN FALSE ELSE env.isInAppBrowser]

\* isInstagramOrFacebook
isInstagramOrFacebook(appName) ==
  LET normalized == ToLowerCase(appName) IN
  \/ Includes(normalized, ToCodes("instagram"))
  \/ Includes(normalized, ToCodes("facebook"))
  \/ Includes(normalized, ToCodes("fbav"))
  \/ Includes(normalized, ToCodes("fban"))

\* openWithAnchorSelf: a hidden anchor with target _self is appended to the
\* body and clicked, and its removal is scheduled
openWithAnchorSelf(url, anchor) ==
  <<Event("appendChild", url, "_self", anchor),
    Event("click", url, "_self", anchor),
    Event("setTimeout", Undefined, "", anchor)>>

\* a faulty openWithAnchorElement: the anchor is never removed
openWithAnchorElementNoCleanup(url, anchor) ==
  <<Event("appendChild", url, "_blank", anchor),
    Event("click", url, "_blank", anchor)>>

\* a faulty openWithAnchorElement: the click is made after the timeout is set
openWithAnchorElementDeferred(url, anchor) ==
  <<Event("appendChild", url, "_blank", anchor),
    Event("setTimeout", Undefined, "", anchor),
    Event("click", url, "_blank", anchor)>>

\* openWithAnchorElement: the same with target _blank
openWithAnchorElement(url, anchor) ==
  <<Event("appendChild", url, "_blank", anchor),
    Event("click", url, "_blank", anchor),
    Event("setTimeout", Undefined, "", anchor)>>

\* a faulty openInSystemBrowser: window.open in every environment
openInSystemBrowserWindowOpen(url, userAgentString, MSStream, anchor) ==
  <<DetectEvent, Event("window.open", url, "_blank", 0)>>

\* a faulty openInSystemBrowser: the technique depends on what was opened
\* before (window.open once an anchor has been made)
openInSystemBrowserOnce(url, userAgentString, MSStream, anchor) ==
  Bind(detectEnvironment(userAgentString, MSStream), LAMBDA env :
    <<DetectEvent>> \o
      (IF anchor > 1 THEN <<Event("window.open", url, "_blank", 0)>>
       ELSE IF env.isInAppBrowser
       THEN IF env.os = "IOS" /\ isInstagramOrFacebook(env.appName)
            THEN openWithAnchorSelf(url, anchor)
            ELSE openWithAnchorElement(url, anchor)
       ELSE IF env.os = "IOS"
            THEN openWithAnchorElement(url, anchor)
            ELSE <<Event("window.open", url, "_blank", 0)>>))

\* openInSystemBrowser; anchor is the identity of the element it may create
openInSystemBrowser(url, userAgentString, MSStream, anchor) ==
  Bind(detectEnvironment(userAgentString, MSStream), LAMBDA env :
    <<DetectEvent>> \o
      (IF env.isInAppBrowser
       THEN IF env.os = "IOS" /\ isInstagramOrFacebook(env.appName)
            THEN openWithAnchorSelf(url, anchor)
            ELSE openWithAnchorElement(url, anchor)
       ELSE IF env.os = "IOS"
            THEN openWithAnchorElement(url, anchor)
            ELSE <<Event("window.open", url, "_blank", 0)>>))

\* a faulty redirectImmediately: the url is opened in a new window
redirectInNewWindow(url) == <<Event("window.open", url, "_blank", 0)>>

\* redirectImmediately: window.location.href = url
redirectImmediately(url) == <<Event("location.href", url, "_self", 0)>>

(***************************************************************************)
(* src/App.tsx: HashRouter and the route table                             *)
(***************************************************************************)
\* the location HashRouter derives from window.location.hash: the text after
\* the leading '#' is split at its first '#' and then at its first '?'
RouterLocation(windowHash) ==
  LET path == SubstringFrom(windowHash, 1)
      hashIndex == IndexOf(path, <<35>>)
      beforeHash == IF hashIndex >= 0 THEN SubSeq(path, 1, hashIndex) ELSE path
      searchIndex == IndexOf(beforeHash, <<63>>)
      beforeSearch == IF searchIndex >= 0 THEN SubSeq(beforeHash, 1, searchIndex)
                      ELSE beforeHash
  IN  [pathname |-> IF beforeSearch = <<>> THEN <<47>> ELSE beforeSearch,
       search |-> IF searchIndex >= 0 THEN SubstringFrom(beforeHash, searchIndex) ELSE <<>>,
       hash |-> IF hashIndex >= 0 THEN SubstringFrom(path, hashIndex) ELSE <<>>]

\* <Route path="/go" element={<Viewer />} /> matches; any other path shows
\* the Dashboard
RoutesToViewer(windowHash) ==
  LET pathname == ToLowerCase(RouterLocation(windowHash).pathname) IN
  pathname \in {ToCodes("/go"), ToCodes("/go/")}

(***************************************************************************)
(* src/pages/Viewer.tsx                                                    *)
(***************************************************************************)
\* the effect's extraction of the "p" parameter from location.hash; fails
\* where the effect sets the error status and returns
ExtractToken(hash) ==
  IF ~Includes(hash, ToCodes("?p=")) THEN Failure
  ELSE LET queryIndex == IndexOf(hash, <<63>>)
           queryString == SubstringFrom(hash, queryIndex + 1)
       IN  Bind(URLSearchParamsGet(queryString, ToCodes("p")), LAMBDA encoded :
             IF ~encoded.ok \/ encoded.v = <<>> THEN Failure ELSE Success(encoded.v))

\* a faulty validation: only the mode is looked at
ValidatePayloadModeOnly(decoded) ==
  Get(decoded, K_mode) \in {JStr(S_direct), JStr(S_bio)}

\* a faulty validation: a bio page is accepted only if every entry has a title
\* and a url
ValidatePayloadEveryEntry(decoded) ==
  LET mode == Get(decoded, K_mode)
      url == Get(decoded, K_url)
      links == Get(decoded, K_links)
  IN  IF mode = JStr(S_direct)
      THEN IsString(url) /\ Trim(url.s) # <<>>
      ELSE IF mode = JStr(S_bio)
           THEN /\ IsArray(links) /\ Len(links.a) > 0
                /\ \A i \in 1..Len(links.a) :
                     Truthy(Get(links.a[i], K_title)) /\ Truthy(Get(links.a[i], K_url))
           ELSE FALSE

\* the structure validation of the decoded payload
ValidatePayload(decoded) ==
  LET mode == Get(decoded, K_mode)
      url == Get(decoded, K_url)
      links == Get(decoded, K_links)
  IN  IF mode = JStr(S_direct)
      THEN ~(~IsString(url) \/ Trim(url.s) = <<>>)
      ELSE IF mode = JStr(S_bio)
           THEN ~(~IsArray(links) \/ Len(links.a) = 0)
           ELSE FALSE

\* a faulty handleLinkOpen: redirects although the confirmation is shown
handleLinkOpenUngated(url, userAgentString, MSStream) ==
  Bind(shouldShowBrowserTransition(userAgentString, MSStream), LAMBDA needsTransition :
    [ev |-> needsTransition.ev \o redirectImmediately(url),
     bridge |-> needsTransition.v, url |-> url])

\* a faulty handleLinkOpen: asks for the confirmation without recording the
\* url it is for
handleLinkOpenNoTarget(url, userAgentString, MSStream) ==
  Bind(shouldShowBrowserTransition(userAgentString, MSStream), LAMBDA needsTransition :
    IF needsTransition.v
    THEN [ev |-> needsTransition.ev, bridge |-> TRUE, url |-> JStr(<<>>)]
    ELSE [ev |-> needsTransition.ev \o redirectImmediately(url),
          bridge |-> FALSE, url |-> url])

\* a faulty handleLinkOpen: redirects first and asks the environment afterwards
handleLinkOpenCheckLast(url, userAgentString, MSStream) ==
  Bind(shouldShowBrowserTransition(userAgentString, MSStream), LAMBDA needsTransition :
    IF needsTransition.v
    THEN [ev |-> needsTransition.ev, bridge |-> TRUE, url |-> url]
    ELSE [ev |-> redirectImmediately(url) \o needsTransition.ev,
          bridge |-> FALSE, url |-> url])

\* what a gated-or-immediate opening of url does: the calls made, and
\* whether the confirmation screen is asked for
handleLinkOpen(url, userAgentString, MSStream) ==
  Bind(shouldShowBrowserTransition(userAgentString, MSStream), LAMBDA needsTransition :
    IF needsTransition.v
    THEN [ev |-> needsTransition.ev, bridge |-> TRUE, url |-> url]
    ELSE [ev |-> needsTransition.ev \o redirectImmediately(url),
          bridge |-> FALSE, url |-> url])

\* the "Handle direct links" block at the end of the effect
DirectHandling(decoded, userAgentString, MSStream) ==
  IF Get(decoded, K_mode) = JStr(S_direct) /\ Truthy(Get(decoded, K_url))
  THEN handleLinkOpen(Get(decoded, K_url), userAgentString, MSStream)
  ELSE [ev |-> <<>>, bridge |-> FALSE, url |-> Undefined]

\* handleBridgeConfirm
handleBridgeConfirm(target, userAgentString, MSStream, anchor) ==
  IF Truthy(target)
  THEN openInSystemBrowser(target, userAgentString, MSStream, anchor)
  ELSE <<>>

\* the console calls the effect makes for a decoded value that is truthy
ValidationConsole(decoded, DEV) ==
  LET mode == Get(decoded, K_mode) IN
  DevOnly(DEV, "log", "[Viewer] Decoded payload:")
    \cup (IF ValidatePayload(decoded)
          THEN DevOnly(DEV, "log", "[Viewer] Payload validated successfully.")
          ELSE IF mode = JStr(S_direct)
               THEN DevOnly(DEV, "error", "[Viewer] Direct mode payload missing or invalid URL.")
          ELSE IF mode = JStr(S_bio)
               THEN DevOnly(DEV, "error", "[Viewer] Bio mode payload missing or invalid links.")
          ELSE DevOnly(DEV, "error", "[Viewer] Invalid payload mode."))

\* the console calls the effect makes up to the call of decodePayload;
\* found: the "p" parameter was extracted
ExtractionConsole(hash, found, DEV) ==
  DevOnly(DEV, "log", "[Viewer] Parsing hash:")
    \cup (IF ~Includes(hash, ToCodes("?p="))
          THEN DevOnly(DEV, "error", "[Viewer] Hash does not contain ?p= parameter.")
          ELSE DevOnly(DEV, "log", "[Viewer] Query string:")
                 \cup (IF found
                       THEN DevOnly(DEV, "log", "[Viewer] Encoded payload length:")
                       ELSE DevOnly(DEV, "error", "[Viewer] Payload parameter p is missing from URL.")))

\* a faulty effect: a token that does not decode leaves the status as it was
\* when the component was mounted
ResolveEffectSilent(hash, userAgentString, MSStream, DEV) ==
  Bind(ExtractToken(hash), LAMBDA encoded :
    Bind(ExtractionConsole(hash, encoded.ok, DEV), LAMBDA parsed :
      LET rejected(log) == [status |-> "error", stored |-> FALSE, payload |-> Null,
                            ev |-> <<>>, bridge |-> FALSE, url |-> Undefined,
                            log |-> parsed \cup log]
          silent(log) == [rejected(log) EXCEPT !.status = "loading"]
      IN  IF ~encoded.ok THEN rejected({})
          ELSE Bind(decodePayload(JStr(encoded.v)), LAMBDA decoded :
                 IF decoded.kind = "throw"
                 THEN silent(DevOnly(DEV, "error", "[Viewer] Error decoding payload:"))
                 ELSE IF ~Truthy(decoded.v)
                 THEN silent(decodePayloadConsole(JStr(encoded.v), DEV)
                                 \cup DevOnly(DEV, "error", "[Viewer] Failed to decode payload."))
                 ELSE IF ~ValidatePayload(decoded.v)
                 THEN rejected(ValidationConsole(decoded.v, DEV))
                 ELSE Bind(DirectHandling(decoded.v, userAgentString, MSStream),
                           LAMBDA direct :
                             [status |-> "ready", stored |-> TRUE, payload |-> decoded.v,
                              ev |-> direct.ev,
                              bridge |-> direct.bridge,
                              url |-> direct.url,
                              log |-> parsed \cup ValidationConsole(decoded.v, DEV)
                                        \cup (IF direct.ev # <<>>
                                              THEN DevOnly(DEV, "log", "[Viewer] Direct link. Needs transition:")
                                              ELSE {})]))))

\* a faulty effect: in a build with the DEV flag a direct link is only
\* logged, the selector is not asked and nothing is opened
ResolveEffectDevStops(hash, userAgentString, MSStream, DEV) ==
  Bind(ExtractToken(hash), LAMBDA encoded :
    Bind(ExtractionConsole(hash, encoded.ok, DEV), LAMBDA parsed :
      LET rejected(log) == [status |-> "error", stored |-> FALSE, payload |-> Null,
                            ev |-> <<>>, bridge |-> FALSE, url |-> Undefined,
                            log |-> parsed \cup log]
          silent(log) == [rejected(log) EXCEPT !.status = "loading"]
      IN  IF ~encoded.ok THEN rejected({})
          ELSE Bind(decodePayload(JStr(encoded.v)), LAMBDA decoded :
                 IF decoded.kind = "throw"
                 THEN rejected(DevOnly(DEV, "error", "[Viewer] Error decoding payload:"))
                 ELSE IF ~Truthy(decoded.v)
                 THEN rejected(decodePayloadConsole(JStr(encoded.v), DEV)
                                 \cup DevOnly(DEV, "error", "[Viewer] Failed to decode payload."))
                 ELSE IF ~ValidatePayload(decoded.v)
                 THEN rejected(ValidationConsole(decoded.v, DEV))
                 ELSE Bind(DirectHandling(decoded.v, userAgentString, MSStream),
                           LAMBDA direct :
                             [status |-> "ready", stored |-> TRUE, payload |-> decoded.v,
                              ev |-> IF DEV THEN <<>> ELSE direct.ev,
                              bridge |-> ~DEV /\ direct.bridge,
                              url |-> direct.url,
                              log |-> parsed \cup ValidationConsole(decoded.v, DEV)
                                        \cup (IF direct.ev # <<>>
                                              THEN DevOnly(DEV, "log", "[Viewer] Direct link. Needs transition:")
                                              ELSE {})]))))

\* the useEffect body: the status it sets, the payload it stores (if any),
\* the confirmation it asks for, the calls it makes on the browser and the
\* console calls it makes in a build with the flag DEV
ResolveEffect(hash, userAgentString, MSStream, DEV) ==
  Bind(ExtractToken(hash), LAMBDA encoded :
    Bind(ExtractionConsole(hash, encoded.ok, DEV), LAMBDA parsed :
      LET rejected(log) == [status |-> "error", stored |-> FALSE, payload |-> Null,
                            ev |-> <<>>, bridge |-> FALSE, url |-> Undefined,
                            log |-> parsed \cup log]
          silent(log) == [rejected(log) EXCEPT !.status = "loading"]
      IN  IF ~encoded.ok THEN rejected({})
          ELSE Bind(decodePayload(JStr(encoded.v)), LAMBDA decoded :
                 IF decoded.kind = "throw"
                 THEN rejected(DevOnly(DEV, "error", "[Viewer] Error decoding payload:"))
                 ELSE IF ~Truthy(decoded.v)
                 THEN rejected(decodePayloadConsole(JStr(encoded.v), DEV)
                                 \cup DevOnly(DEV, "error", "[Viewer] Failed to decode payload."))
                 ELSE IF ~ValidatePayload(decoded.v)
                 THEN rejected(ValidationConsole(decoded.v, DEV))
                 ELSE Bind(DirectHandling(decoded.v, userAgentString, MSStream),
                           LAMBDA direct :
                             [status |-> "ready", stored |-> TRUE, payload |-> decoded.v,
                              ev |-> direct.ev,
                              bridge |-> direct.bridge,
                              url |-> direct.url,
                              log |-> parsed \cup ValidationConsole(decoded.v, DEV)
                                        \cup (IF direct.ev # <<>>
                                              THEN DevOnly(DEV, "log", "[Viewer] Direct link. Needs transition:")
                                              ELSE {})]))))

\* a value React can render as a child
RECURSIVE Renderable(_)
Renderable(x) ==
  IF x.t = "obj" THEN FALSE
  ELSE IF x.t = "arr" THEN \A i \in 1..Len(x.a) : Renderable(x.a[i])
  ELSE TRUE

\* the || of JavaScript
OrElse(x, fallback) == IF Truthy(x) THEN x ELSE fallback

\* BioPage reads link.url and link.title of every entry and renders the
\* profile name and the titles
BioPageRenders(profileName, links) ==
  /\ Renderable(profileName)
  /\ \A i \in 1..Len(links.a) :
       /\ links.a[i].t \notin {"null", "undefined"}
       /\ Renderable(Get(links.a[i], K_title))

\* the props the Viewer hands to BioPage
BioPageProps(pl) ==
  [profileName |-> OrElse(Get(pl, K_profileName), JStr(ToCodes("My Links"))),
   links |-> Get(pl, K_links)]

\* a faulty render: the confirmation is looked at before the status
ViewBridgeFirst(st, pl, bridge, target) ==
  IF bridge /\ Truthy(target) THEN "bridge"
  ELSE IF st = "loading" THEN "loading"
  ELSE IF st = "error" \/ ~Truthy(pl) THEN "error"
  ELSE IF Get(pl, K_mode) = JStr(S_bio) /\ Truthy(Get(pl, K_links))
          /\ IsArray(Get(pl, K_links)) /\ Len(Get(pl, K_links).a) > 0
       THEN IF BioPageRenders(BioPageProps(pl).profileName, BioPageProps(pl).links)
            THEN "bio" ELSE "crashed"
  ELSE IF Get(pl, K_mode) = JStr(S_direct) /\ Truthy(Get(pl, K_url))
       THEN IF Renderable(OrElse(Get(pl, K_title), JStr(ToCodes("Open Link"))))
            THEN "direct" ELSE "crashed"
  ELSE "fallback"

\* which screen the component returns for its state
View(st, pl, bridge, target) ==
  IF st = "loading" THEN "loading"
  ELSE IF st = "error" \/ ~Truthy(pl) THEN "error"
  ELSE IF bridge /\ Truthy(target) THEN "bridge"
  ELSE IF Get(pl, K_mode) = JStr(S_bio) /\ Truthy(Get(pl, K_links))
          /\ IsArray(Get(pl, K_links)) /\ Len(Get(pl, K_links).a) > 0
       THEN IF BioPageRenders(BioPageProps(pl).profileName, BioPageProps(pl).links)
            THEN "bio" ELSE "crashed"
  ELSE IF Get(pl, K_mode) = JStr(S_direct) /\ Truthy(Get(pl, K_url))
       THEN IF Renderable(OrElse(Get(pl, K_title), JStr(ToCodes("Open Link"))))
            THEN "direct" ELSE "crashed"
  ELSE "fallback"

(***************************************************************************)
(* src/pages/Dashboard.tsx (src/unnamed/part_001)                          *)
(***************************************************************************)
\* /^https?:\/\//i.test(u)
HasHttpScheme(u) ==
  \/ MatchesAtIgnoreCase(u, ToCodes("http://"), 1)
  \/ MatchesAtIgnoreCase(u, ToCodes("https://"), 1)

\* a faulty normalization: the url is only trimmed
NormalizeUrlTrimOnly(raw) == Trim(raw)

\* a faulty normalization: 'https://' is put in front of every url
NormalizeUrlAlways(raw) == ToCodes("https://") \o Trim(raw)

\* the normalization of an entered url: trimmed, and 'https://' put in
\* front unless it starts with http:// or https://
NormalizeUrl(raw) ==
  LET u == Trim(raw) IN
  IF HasHttpScheme(u) THEN u ELSE ToCodes("https://") \o u

\* a faulty filter: an entry with a title or a url is kept
IsValidLinkEither(l) == Trim(l.url) # <<>> \/ Trim(l.title) # <<>>

\* the filter of the bio entries: l.url.trim() && l.title.trim()
IsValidLink(l) == Trim(l.url) # <<>> /\ Trim(l.title) # <<>>

\* the payload handleGenerate builds from the form; fails where it returns
\* without generating
BuildPayload(f) ==
  IF f.tab = "direct"
  THEN IF Trim(f.directUrl) = <<>> THEN Failure
       ELSE Success(JObj(<<K_mode, K_url, K_title>>,
                         <<JStr(S_direct), JStr(NormalizeUrl(f.directUrl)),
                           JStr(IF Trim(f.directTitle) # <<>> THEN Trim(f.directTitle)
                                ELSE ToCodes("Content"))>>))
  ELSE LET validLinks == SelectSeq(f.bioLinks, IsValidLink) IN
       IF Len(validLinks) = 0 THEN Failure
       ELSE Success(JObj(<<K_mode, K_profileName, K_links>>,
                         <<JStr(S_bio),
                           JStr(IF Trim(f.bioName) # <<>> THEN Trim(f.bioName)
                                ELSE ToCodes("My Links")),
                           JArr([i \in 1..Len(validLinks) |->
                                   JObj(<<K_title, K_url>>,
                                        <<JStr(Trim(validLinks[i].title)),
                                          JStr(NormalizeUrl(validLinks[i].url))>>)])>>))

\* handleGenerate: whether a link was generated, the payload and the link
handleGenerate(f, locationHref) ==
  Bind(BuildPayload(f), LAMBDA data :
    IF ~data.ok THEN [generated |-> FALSE]
    ELSE [generated |-> TRUE, data |-> data.v,
          link |-> generateParaLink(data.v, locationHref)])

(***************************************************************************)
(* Bounds and inputs                                                       *)
(***************************************************************************)
\* handler invocations (effect runs and taps) followed in one page visit
MaxCalls == 3
\* entries of a bio page authored in the codec pipeline
MaxLinks == 2
\* percent-encodings applied to a token in transport
MaxHops == 2

Text(s) == JStr(ToCodes(s))

LinkItem(title, url) == JObj(<<K_title, K_url>>, <<title, url>>)

\* titles and names: ASCII, Latin-1, text that JSON escapes, and a character
\* above U+00FF
SampleTitles == {Text("T"), JStr(<<233>>), JStr(<<34, 92, 10>>), JStr(<<8364>>)}
SampleUrls == {Text("https://a.b/c?d=1"), Text("http://x.y")}

\* the entries a creator can put on a bio page
SampleItems ==
  {LinkItem(t, u) : t \in {Text("T"), JStr(<<8364>>)}, u \in SampleUrls}
    \cup {LinkItem(Text("T"), JStr(<<>>)), LinkItem(JStr(<<>>), Text("http://x.y"))}

\* an entry with a non-empty title and a non-empty url
FullyPopulated(item) == Truthy(Get(item, K_title)) /\ Truthy(Get(item, K_url))

LinkLists ==
  UNION {[1..n -> SampleItems] : n \in 1..MaxLinks}

\* the valid descriptors of the data model: a direct link with a non-empty
\* url and an optional title, or a bio page with an optional profile name
\* and at least one fully populated entry
DirectDescriptors ==
  {JObj(<<K_mode, K_url>>, <<JStr(S_direct), u>>) :
     u \in SampleUrls \cup {Text("example.com")}}
    \cup {JObj(<<K_mode, K_url, K_title>>, <<JStr(S_direct), u, t>>) :
            u \in SampleUrls, t \in SampleTitles}

BioDescriptors ==
  LET lists == {l \in LinkLists : \E i \in 1..Len(l) : FullyPopulated(l[i])} IN
  {JObj(<<K_mode, K_links>>, <<JStr(S_bio), JArr(l)>>) : l \in lists}
    \cup {JObj(<<K_mode, K_profileName, K_links>>, <<JStr(S_bio), n, JArr(l)>>) :
            n \in {Text("P"), JStr(<<8364>>)}, l \in lists}

Descriptors == DirectDescriptors \cup BioDescriptors

\* what a creator can type into a url field and into a title or name field
TypedUrls ==
  {<<>>, ToCodes("  "), ToCodes("example.com"), ToCodes(" https://a.b "),
   ToCodes("HTTP://x.y"), ToCodes("ftp://f.g"), <<8364, 46, 99>>}
TypedTitles == {<<>>, ToCodes(" T ")}

\* the rows of the bio form
TypedLinks ==
  {[title |-> ToCodes("A"), url |-> ToCodes("a.b")],
   [title |-> ToCodes("B"), url |-> <<>>],
   [title |-> <<>>, url |-> ToCodes("http://x.y")],
   [title |-> ToCodes("C"), url |-> ToCodes("ftp://f.g")]}

\* the states of the Dashboard form when "Generate" is pressed
Forms ==
  {[tab |-> "direct", directUrl |-> u, directTitle |-> title, bioName |-> <<>>,
    bioLinks |-> <<[title |-> <<>>, url |-> <<>>]>>] :
     u \in TypedUrls, title \in TypedTitles}
    \cup {[tab |-> "bio", directUrl |-> <<>>, directTitle |-> <<>>, bioName |-> n,
            bioLinks |-> l] :
             n \in TypedTitles, l \in UNION {[1..k -> TypedLinks] : k \in 1..MaxLinks}}

\* window.location.href of the Dashboard
Hrefs == {ToCodes("https://pl.app/#/"), ToCodes("blob:https://PL.app/9f3a")}

\* values handed to decodePayload that no encodePayload produced
ForeignInputs ==
  {JStr(<<>>), Undefined, Null, JNum(ToCodes("5")), JObj(<<>>, <<>>),
   Text("not base64!"), Text("e"), Text("%"), Text("e30%3"), Text("%zz"),
   Text("%E2%82"), Text("aGVsbG8="), Text("e30"), Text("e30%3D"), Text("bnVsbA=="),
   Text("eyJtb2RlIjo=")}

\* payloads behind the addresses a visitor opens
P_direct == JObj(<<K_mode, K_url, K_title>>,
                 <<JStr(S_direct), Text("https://a.b"), Text("T")>>)
P_bio ==
  JObj(<<K_mode, K_profileName, K_links>>,
       <<JStr(S_bio), Text("P"),
         JArr(<<LinkItem(Text("A"), Text("https://a.b")),
                LinkItem(Text("B"), JStr(<<>>))>>)>>)
\* a bio page with two entries that differ in their url
P_bioTwoLinks ==
  JObj(<<K_mode, K_links>>,
       <<JStr(S_bio), JArr(<<LinkItem(Text("A"), Text("https://a.b")),
                             LinkItem(Text("C"), Text("http://x.y"))>>)>>)
P_bioNoLinks == JObj(<<K_mode, K_links>>, <<JStr(S_bio), JArr(<<>>)>>)
P_directNoUrl == JObj(<<K_mode>>, <<JStr(S_direct)>>)
P_directEmptyUrl == JObj(<<K_mode, K_url>>, <<JStr(S_direct), JStr(<<>>)>>)
P_directBlankUrl == JObj(<<K_mode, K_url>>, <<JStr(S_direct), Text("  ")>>)
P_otherMode == JObj(<<K_mode, K_url>>, <<Text("page"), Text("https://a.b")>>)
\* a bio page none of whose entries has both a title and a url
P_bioBlankEntries ==
  JObj(<<K_mode, K_links>>,
       <<JStr(S_bio), JArr(<<LinkItem(JStr(<<>>), Text("https://a.b")),
                             LinkItem(Text("B"), JStr(<<>>))>>)>>)
\* well-formed JSON of another shape
P_bioNullEntry == JObj(<<K_mode, K_links>>, <<JStr(S_bio), JArr(<<Null>>)>>)
P_number == JNum(ToCodes("5"))
P_text == Text("direct")

ViewerPayloads ==
  {P_direct, P_bio, P_bioNoLinks, P_directNoUrl, P_directEmptyUrl,
   P_directBlankUrl, P_otherMode, P_bioBlankEntries, P_bioNullEntry,
   P_number, P_text, P_bioTwoLinks}

TokenOf(data) == encodePayload(data).v.s

\* the address generateParaLink builds: the token is the query of the route
StandardAddress(t) == ToCodes("#/go?p=") \o t
\* an address whose route carries the query in a fragment of its own
FragmentAddress(t) == ToCodes("#/go#?p=") \o t

Addresses ==
  {FragmentAddress(TokenOf(d)) : d \in ViewerPayloads}
    \cup {FragmentAddress(encodeURIComponent(TokenOf(d)).v) : d \in {P_direct, P_bio}}
    \cup {StandardAddress(TokenOf(d)) : d \in {P_direct, P_bio}}
    \cup {ToCodes("#/go"), ToCodes("#/go#?p="), ToCodes("#/go#?p=%"),
          ToCodes("#/go#?p=aGVsbG8="), ToCodes("#/")}

\* the addresses a later hash change leads to
NextAddresses ==
  {FragmentAddress(TokenOf(P_direct)), FragmentAddress(TokenOf(P_bio)),
   FragmentAddress(TokenOf(P_bioNoLinks)), ToCodes("#/")}

UserAgents ==
  {ToCodes("Mozilla/5.0 (Windows NT 10.0) Chrome/120"),
   ToCodes("Mozilla/5.0 (Macintosh) TwitterDesktop"),
   ToCodes("Mozilla/5.0 (iPhone) Safari/604"),
   ToCodes("Mozilla/5.0 (iPhone) Instagram 300"),
   ToCodes("Mozilla/5.0 (iPad) musical_ly TikTok"),
   ToCodes("Mozilla/5.0 (Linux; Android 14) Chrome/120"),
   ToCodes("Mozilla/5.0 (Linux; Android 14) FBAN/FB4A")}

(***************************************************************************)
(* State                                                                   *)
(***************************************************************************)
VARIABLES
  \* the browser: navigator.userAgent, window.MSStream, window.location.hash
  userAgent, msStream, windowHash,
  \* the document: "alive", "navigating" once a navigation that replaces it
  \* was requested, "gone" once it is unloaded ("none": no page is open)
  page,
  \* the Viewer component: mounted by the route, effect scheduled to run
  mounted, effectPending,
  \* the Viewer's React state
  status, payload, showBridge, bridgeTargetUrl,
  \* the calls made on the browser so far, each with its handler and the
  \* number of the handler invocation
  trace,
  \* the anchors in document.body, the pending removal timeouts
  anchors, timers,
  \* handler invocations so far
  calls,
  \* the codec pipeline: a descriptor is encoded to a token, the token is
  \* percent-encoded hops times into wire, wire is decoded into result;
  \* the descriptor may come from the Dashboard form, and link is the
  \* address generated for it
  phase, form, descriptor, token, link, hops, wire, result,
  \* a browser whose classification is asked for: its navigator and window
  \* properties, and the outcome of the detectEnvironment() call
  navigator, detected,
  \* the build: import.meta.env.DEV; the console: the calls of console.log
  \* and console.error made so far
  dev, console

browserVars == <<userAgent, msStream, windowHash, page>>
viewerVars == <<mounted, effectPending, status, payload, showBridge, bridgeTargetUrl>>
domVars == <<trace, anchors, timers, calls>>
codecVars == <<phase, form, descriptor, token, link, hops, wire, result>>
probeVars == <<navigator, detected>>
diagVars == <<dev, console>>
vars == <<browserVars, viewerVars, domVars, codecVars, probeVars, diagVars>>

\* a production build, nothing written on the console
ProductionBuild ==
  /\ dev = FALSE
  /\ console = {}

\* detectEnvironment() was not called
NotCalled == [kind |-> "none"]

ProbeIdle ==
  /\ navigator = Undefined
  /\ detected = NotCalled

CodecIdle ==
  /\ phase = "idle"
  /\ form = Undefined
  /\ descriptor = Undefined
  /\ token = JStr(<<>>)
  /\ link = <<>>
  /\ hops = 0
  /\ wire = Undefined
  /\ result = Returned(Undefined)

\* the state of a freshly mounted Viewer
ViewerInitialState ==
  /\ status = "loading"
  /\ payload = Null
  /\ showBridge = FALSE
  /\ bridgeTargetUrl = JStr(<<>>)

(***************************************************************************)
(* The Link Resolution Flow                                                *)
(***************************************************************************)
\* events stamped with the handler that made them and its invocation number
Stamp(evs, handler, call) ==
  [i \in 1..Len(evs) |->
     [op |-> evs[i].op, url |-> evs[i].url, target |-> evs[i].target,
      anchor |-> evs[i].anchor, handler |-> handler, call |-> call]]

\* a call that hands the visitor to another document or window
IsNavigation(e) == e.op \in {"location.href", "window.open", "click"}

\* a navigation that replaces the current document
ReplacesDocument(e) ==
  \/ e.op = "location.href"
  \/ e.op = "click" /\ e.target = "_self"

\* the identity of the next anchor element created
NextAnchor == 1 + Cardinality({i \in 1..Len(trace) : trace[i].op = "appendChild"})

\* the calls evs of one handler invocation take effect on the document
Issue(evs, handler) ==
  /\ trace' = trace \o Stamp(evs, handler, calls + 1)
  /\ anchors' = anchors \cup {evs[i].anchor : i \in {j \in 1..Len(evs) : evs[j].op = "appendChild"}}
  /\ timers' = timers \cup {evs[i].anchor : i \in {j \in 1..Len(evs) : evs[j].op = "setTimeout"}}
  /\ page' = IF \E i \in 1..Len(evs) : ReplacesDocument(evs[i]) THEN "navigating" ELSE page
  /\ calls' = calls + 1

\* the page can still run handlers
Running == page \in {"alive", "navigating"}

\* the screen shown
Screen == IF mounted THEN View(status, payload, showBridge, bridgeTargetUrl) ELSE "dashboard"

\* the page is opened at an address in a browser
FirstRender ==
  /\ userAgent \in UserAgents
  /\ msStream \in BOOLEAN
  /\ windowHash \in Addresses
  /\ page = "alive"
  /\ mounted = RoutesToViewer(windowHash)
  /\ effectPending = mounted
  /\ ViewerInitialState
  /\ trace = <<>>
  /\ anchors = {}
  /\ timers = {}
  /\ calls = 0
  /\ CodecIdle
  /\ ProbeIdle

Init == FirstRender /\ ProductionBuild

\* the browsers the two kinds of build are compared in: a desktop browser
\* and an in-app browser of each mobile system
DevUserAgents ==
  {ToCodes("Mozilla/5.0 (Windows NT 10.0) Chrome/120"),
   ToCodes("Mozilla/5.0 (iPhone) Instagram 300"),
   ToCodes("Mozilla/5.0 (Linux; Android 14) FBAN/FB4A")}

\* the same in a build of either kind
InitDev ==
  /\ FirstRender
  /\ userAgent \in DevUserAgents
  /\ msStream = FALSE
  /\ dev \in BOOLEAN
  /\ console = {}

\* the useEffect of the Viewer runs for the current location
LoadEffect ==
  /\ Running /\ mounted /\ effectPending
  /\ calls < MaxCalls
  /\ \E o \in {ResolveEffect(RouterLocation(windowHash).hash, userAgent, msStream, dev)} :
       /\ console' = console \cup o.log
       /\ status' = o.status
       /\ payload' = IF o.stored THEN o.payload ELSE payload
       /\ showBridge' = IF o.bridge THEN TRUE ELSE showBridge
       /\ bridgeTargetUrl' = IF o.bridge THEN o.url ELSE bridgeTargetUrl
       /\ Issue(o.ev, "effect")
  /\ effectPending' = FALSE
  /\ UNCHANGED <<userAgent, msStream, windowHash, mounted, codecVars, probeVars, dev>>

\* the fragment of the address changes: the router re-renders, the Viewer
\* is mounted, kept or unmounted, and its effect is scheduled
LocationChange ==
  /\ Running /\ ~effectPending
  /\ calls < MaxCalls
  /\ \E h \in NextAddresses :
       /\ h # windowHash
       /\ windowHash' = h
       /\ mounted' = RoutesToViewer(h)
       /\ effectPending' = RoutesToViewer(h)
       /\ IF mounted /\ RoutesToViewer(h)
          THEN UNCHANGED <<status, payload, showBridge, bridgeTargetUrl>>
          ELSE /\ status' = "loading"
               /\ payload' = Null
               /\ showBridge' = FALSE
               /\ bridgeTargetUrl' = JStr(<<>>)
  /\ UNCHANGED <<userAgent, msStream, page, domVars, codecVars, probeVars, diagVars>>

\* a tap on entry i of the bio page: onLinkClick(link.url)
BioLinkTap ==
  /\ Running /\ ~effectPending /\ Screen = "bio"
  /\ calls < MaxCalls
  /\ \E i \in 1..Len(Get(payload, K_links).a) :
       \E o \in {handleLinkOpen(Get(Get(payload, K_links).a[i], K_url), userAgent, msStream)} :
         /\ showBridge' = IF o.bridge THEN TRUE ELSE showBridge
         /\ bridgeTargetUrl' = IF o.bridge THEN o.url ELSE bridgeTargetUrl
         /\ Issue(o.ev, "handleLinkOpen")
  /\ UNCHANGED <<userAgent, msStream, windowHash, mounted, effectPending,
                 status, payload, codecVars, probeVars, diagVars>>

\* a tap on "Click to Open" of the direct-link fallback screen
DirectTap ==
  /\ Running /\ ~effectPending /\ Screen = "direct"
  /\ calls < MaxCalls
  /\ \E o \in {handleLinkOpen(Get(payload, K_url), userAgent, msStream)} :
       /\ showBridge' = IF o.bridge THEN TRUE ELSE showBridge
       /\ bridgeTargetUrl' = IF o.bridge THEN o.url ELSE bridgeTargetUrl
       /\ Issue(o.ev, "handleLinkOpen")
  /\ UNCHANGED <<userAgent, msStream, windowHash, mounted, effectPending,
                 status, payload, codecVars, probeVars, diagVars>>

\* a tap on "Continue" of the confirmation screen: onOpen
BridgeTap ==
  /\ Running /\ ~effectPending /\ Screen = "bridge"
  /\ calls < MaxCalls
  /\ \E evs \in {handleBridgeConfirm(bridgeTargetUrl, userAgent, msStream, NextAnchor)} :
       Issue(evs, "handleBridgeConfirm")
  /\ UNCHANGED <<userAgent, msStream, windowHash, viewerVars, codecVars, probeVars, diagVars>>

\* a removal timeout runs: the anchor is removed if it is still in the body
TimerFire ==
  /\ Running
  /\ \E a \in timers :
       /\ timers' = timers \ {a}
       /\ anchors' = anchors \ {a}
       /\ trace' = IF a \in anchors
                   THEN trace \o Stamp(<<Event("removeChild", Undefined, "", a)>>, "timeout", 0)
                   ELSE trace
  /\ UNCHANGED <<browserVars, viewerVars, calls, codecVars, probeVars, diagVars>>

\* the requested navigation completes and the document is torn down with
\* its timers
Unload ==
  /\ page = "navigating"
  /\ page' = "gone"
  /\ timers' = {}
  /\ UNCHANGED <<userAgent, msStream, windowHash, viewerVars, trace, anchors, calls, codecVars, probeVars, diagVars>>

Next ==
  \/ LoadEffect
  \/ LocationChange
  \/ BioLinkTap
  \/ DirectTap
  \/ BridgeTap
  \/ TimerFire
  \/ Unload

Spec == Init /\ [][Next]_vars

SpecDev == InitDev /\ [][Next]_vars

(***************************************************************************)
(* The codec pipeline                                                      *)
(***************************************************************************)
ViewerIdle ==
  /\ userAgent = <<>>
  /\ msStream = FALSE
  /\ windowHash = <<>>
  /\ page = "none"
  /\ mounted = FALSE
  /\ effectPending = FALSE
  /\ ViewerInitialState
  /\ trace = <<>>
  /\ anchors = {}
  /\ timers = {}
  /\ calls = 0

\* t percent-encoded k times
RECURSIVE PercentEncoded(_, _)
PercentEncoded(t, k) ==
  IF k = 0 THEN t ELSE encodeURIComponent(PercentEncoded(t, k - 1)).v

\* a creator has filled the Dashboard form, or holds a valid descriptor, or
\* some value arrives at decodePayload from elsewhere
InitCodec ==
  /\ ViewerIdle
  /\ ProbeIdle
  /\ ProductionBuild
  /\ token = JStr(<<>>)
  /\ link = <<>>
  /\ hops = 0
  /\ result = Returned(Undefined)
  /\ \/ /\ phase = "form"
        /\ form \in Forms
        /\ descriptor = Undefined
        /\ wire = Undefined
     \/ /\ phase = "authored"
        /\ form = Undefined
        /\ descriptor \in Descriptors
        /\ wire = Undefined
     \/ /\ phase = "received"
        /\ form = Undefined
        /\ descriptor = Undefined
        /\ wire \in ForeignInputs

\* "Generate" is pressed: handleGenerate, with the generateParaLink and
\* encodePayload calls it makes
Generate ==
  /\ phase = "form"
  /\ \E href \in Hrefs :
       \E g \in {handleGenerate(form, href)} :
         IF g.generated
         THEN /\ descriptor' = g.data
              /\ token' = encodePayload(g.data).v
              /\ console' = console \cup encodePayloadConsole(g.data)
              /\ link' = g.link
              /\ phase' = "encoded"
         ELSE /\ phase' = "dropped"
              /\ UNCHANGED <<descriptor, token, link, console>>
  /\ UNCHANGED <<form, hops, wire, result, browserVars, viewerVars, domVars, probeVars, dev>>

\* generateParaLink(descriptor), with the encodePayload call it makes
Encode ==
  /\ phase = "authored"
  /\ \E href \in Hrefs :
       /\ token' = encodePayload(descriptor).v
       /\ link' = generateParaLink(descriptor, href)
  /\ console' = console \cup encodePayloadConsole(descriptor)
  /\ phase' = "encoded"
  /\ UNCHANGED <<form, descriptor, hops, wire, result, browserVars, viewerVars, domVars, probeVars, dev>>

\* the token travels, percent-encoded k times on the way
Transport ==
  /\ phase = "encoded"
  /\ \E k \in 0..MaxHops :
       /\ hops' = k
       /\ wire' = JStr(PercentEncoded(token.s, k))
  /\ phase' = "received"
  /\ UNCHANGED <<form, descriptor, token, link, result, browserVars, viewerVars, domVars, probeVars, diagVars>>

\* decodePayload(wire)
Decode ==
  /\ phase = "received"
  /\ result' = decodePayload(wire)
  /\ console' = console \cup decodePayloadConsole(wire, dev)
  /\ phase' = "decoded"
  /\ UNCHANGED <<form, descriptor, token, link, hops, wire, browserVars, viewerVars, domVars, probeVars, dev>>

NextCodec ==
  \/ Generate
  \/ Encode
  \/ Transport
  \/ Decode

SpecCodec == InitCodec /\ [][NextCodec]_vars

(***************************************************************************)
(* The classification of a browser                                         *)
(***************************************************************************)
\* values of navigator.userAgent
ProbedUserAgents ==
  {<<>>,
   ToCodes("Mozilla/5.0 (Windows NT 10.0) Chrome/120"),
   ToCodes("Mozilla/5.0 (X11; Linux x86_64) Firefox/120"),
   ToCodes("Opera/9.80 (Windows NT 6.1) Presto/2.12"),
   ToCodes("Mozilla/5.0 (Macintosh) TwitterDesktop"),
   ToCodes("Mozilla/5.0 (iPhone) Safari/604"),
   ToCodes("Mozilla/5.0 (iPhone) LinkedInApp"),
   ToCodes("Mozilla/5.0 (iPad) musical_ly TikTok"),
   ToCodes("Mozilla/5.0 (iPod touch) instagram 12 FBAN/FBIOS"),
   ToCodes("Mozilla/5.0 (Windows Phone; iPhone) Edge"),
   ToCodes("Mozilla/5.0 (iPhone; like ANDROID) Safari"),
   ToCodes("Mozilla/5.0 (Linux; Android 14; iPad) Chrome"),
   ToCodes("Mozilla/5.0 (Linux; android 9) LINE/11 WhatsApp"),
   ToCodes("Mozilla/5.0 (Linux; Android 14) FBAN/FB4A;FBAV/400")}

\* values of navigator.vendor
Vendors == {<<>>, ToCodes("Google Inc.")}

\* values of window.opera: absent, or the object of the Presto browser
OperaValues == {Undefined, JObj(<<>>, <<>>)}

Navigators ==
  [userAgent : ProbedUserAgents, vendor : Vendors, opera : OperaValues,
   MSStream : BOOLEAN]

InitProbe ==
  /\ ViewerIdle
  /\ CodecIdle
  /\ ProductionBuild
  /\ navigator \in Navigators
  /\ detected = NotCalled

\* detectEnvironment() is called
Detect ==
  /\ detected = NotCalled
  /\ detected' = detectEnvironmentCall(navigator)
  /\ UNCHANGED <<navigator, browserVars, viewerVars, domVars, codecVars, diagVars>>

NextProbe == Detect

SpecProbe == InitProbe /\ [][NextProbe]_vars

(***************************************************************************)
(* Properties of the Link Resolution Flow (Spec)                           *)
(***************************************************************************)
\* the browsers of Init
Browsers == UserAgents \X BOOLEAN

\* detectEnvironment and shouldShowBrowserTransition, tabulated over them
Classifications ==
  {[browser |-> b,
    env |-> detectEnvironment(b[1], b[2]),
    gated |-> shouldShowBrowserTransition(b[1], b[2]).v] : b \in Browsers}

\* the table's row for the visiting browser
Visitor == CHOOSE c \in Classifications : c.browser = <<userAgent, msStream>>

\* the classification of the visiting browser
Classification == Visitor.env

\* the selector asks for the confirmation screen in this browser
Gated == Visitor.gated

\* the positions of the navigations in the trace
Navigations == {i \in 1..Len(trace) : IsNavigation(trace[i])}

\* the Viewer has resolved the current address to a direct link
ResolvedDirect ==
  /\ mounted /\ ~effectPending /\ status = "ready"
  /\ Get(payload, K_mode) = JStr(S_direct)

\* C1: where the selector gates, every navigation (location assignment,
\* window.open, anchor click) is made by the confirmation tap handler
\* handleBridgeConfirm; the load effect and handleLinkOpen make none, for
\* direct links and bio entries alike.
C1_GatedNavigationOnlyOnConfirmTap ==
  Gated => \A i \in Navigations : trace[i].handler = "handleBridgeConfirm"

\* a gated direct link was confirmed and the tap handler has navigated
C1_Witness ==
  /\ Gated /\ ResolvedDirect /\ showBridge
  /\ \E i \in Navigations : trace[i].handler = "handleBridgeConfirm"

\* C2: every navigation is preceded, within the same handler invocation, by
\* a call of detectEnvironment.
C2_CheckPrecedesNavigation ==
  \A i \in Navigations :
    \E j \in 1..(i - 1) :
      /\ trace[j].op = "detectEnvironment"
      /\ trace[j].call = trace[i].call
      /\ trace[j].handler = trace[i].handler

\* a tap on a bio entry has navigated in a browser that is not gated
C2_Witness ==
  /\ ~Gated
  /\ \E i \in Navigations : trace[i].handler = "handleLinkOpen"

\* C3 as stated: a browser classified Desktop is never shown the
\* confirmation screen, whatever signature its user agent matches.
C3_DesktopNeverGated ==
  Classification.os = "DESKTOP" => ~showBridge /\ Screen # "bridge"

\* C4 as stated: on Android inside an app, the confirmation tap navigates to
\* the intent URI of the target and arms a fallback timer that opens the
\* target itself.
C4_AndroidIntentHandoff ==
  (Classification.os = "ANDROID" /\ Classification.isInAppBrowser) =>
    \A i \in Navigations :
      trace[i].handler = "handleBridgeConfirm" =>
        /\ trace[i].url \in {JStr(generateAndroidIntent(u.s).v) :
                               u \in {bridgeTargetUrl}}
        /\ \E j \in 1..Len(trace) :
             /\ trace[j].call = trace[i].call
             /\ trace[j].op = "setTimeout"
             /\ trace[j].url = bridgeTargetUrl

\* C5: on iOS inside an app, a resolved direct link shows the confirmation
\* screen, and every navigation is the click of an anchor made by the
\* confirmation tap handler: nothing navigates immediately.
C5_IosInAppConfirmThenAnchorClick ==
  (Classification.os = "IOS" /\ Classification.isInAppBrowser) =>
    /\ ResolvedDirect => Screen = "bridge"
    /\ \A i \in Navigations :
         /\ trace[i].op = "click"
         /\ trace[i].handler = "handleBridgeConfirm"
         /\ \E j \in 1..(i - 1) :
              /\ trace[j].op = "appendChild"
              /\ trace[j].anchor = trace[i].anchor
              /\ trace[j].url = trace[i].url

\* an anchor was clicked on iOS inside an app
C5_Witness ==
  /\ Classification.os = "IOS" /\ Classification.isInAppBrowser
  /\ \E i \in Navigations : trace[i].op = "click"

\* iOS or Android, not inside an app
MobileRealBrowser ==
  Classification.os \in {"IOS", "ANDROID"} /\ ~Classification.isInAppBrowser

\* C6 as stated: in a real browser on iOS or Android no confirmation screen
\* is shown and every navigation opens a new tab or window, leaving the
\* current document in place.
C6_MobileRealBrowserOpensNewWindow ==
  MobileRealBrowser =>
    /\ ~showBridge
    /\ \A i \in Navigations : ~ReplacesDocument(trace[i])

\* C6, amended: in a real browser on iOS or Android no confirmation screen
\* is shown, a resolved direct link has navigated at once, and every
\* navigation assigns window.location.href (the current document is
\* replaced), from the load effect or from handleLinkOpen.
C6_MobileRealBrowserRedirects ==
  MobileRealBrowser =>
    /\ ~showBridge /\ Screen # "bridge"
    /\ ResolvedDirect =>
         \E i \in Navigations :
           trace[i].handler = "effect" /\ trace[i].url = Get(payload, K_url)
    /\ \A i \in Navigations :
         /\ trace[i].op = "location.href"
         /\ trace[i].handler \in {"effect", "handleLinkOpen"}

\* a direct link has redirected in Safari on an iPhone
C6_Witness ==
  /\ MobileRealBrowser /\ ResolvedDirect
  /\ \E i \in Navigations : trace[i].op = "location.href"

\* the addresses whose token decodes to a payload of a rejected shape
RejectedShapeAddresses ==
  {FragmentAddress(TokenOf(d)) :
     d \in {P_bioNoLinks, P_directNoUrl, P_directEmptyUrl, P_directBlankUrl,
            P_otherMode}}

\* the calls added to the trace by a step
NewCalls == SubSeq(trace', Len(trace) + 1, Len(trace'))

\* C10: when the effect has run for an address whose payload is a bio page
\* without links, a direct link without a url (or with an empty or blank
\* one) or has another mode, the status is "error", the error screen is
\* shown, and the step has made no navigation.
C10_RejectedShapesEndInError ==
  [][(windowHash' \in RejectedShapeAddresses /\ mounted' /\ ~effectPending') =>
       /\ status' = "error"
       /\ Screen' = "error"
       /\ \A i \in 1..Len(NewCalls) : ~IsNavigation(NewCalls[i])]_vars

\* the effect has run for a bio page without links
C10_Witness ==
  /\ windowHash = FragmentAddress(TokenOf(P_bioNoLinks))
  /\ mounted /\ ~effectPending
  /\ status = "error"

\* the effect has accepted a bio page for the current address
AcceptedBio ==
  /\ mounted /\ ~effectPending /\ status = "ready"
  /\ Get(payload, K_mode) = JStr(S_bio)

\* C11 as stated: a bio page is accepted only if at least one entry of its
\* links has a non-empty title and a non-empty url; a bio page whose entries
\* all lack one of the two is rejected.
C11_AcceptedBioHasPopulatedEntry ==
  AcceptedBio =>
    \E i \in 1..Len(Get(payload, K_links).a) :
      FullyPopulated(Get(payload, K_links).a[i])

\* the address of the bio page with one fully populated entry and one entry
\* with an empty url
MixedEntriesAddress == FragmentAddress(TokenOf(P_bio))

\* C12: when the effect has run for the bio page with a fully populated
\* entry and an entry with an empty url, the page is accepted (status
\* "ready"), and the list renderer is handed both entries, in their order
\* and as they were encoded.
C12_MixedEntriesAcceptedAndPassedOn ==
  (windowHash = MixedEntriesAddress /\ mounted /\ ~effectPending) =>
    /\ status = "ready"
    /\ Screen \in {"bio", "bridge"}
    /\ ~showBridge => Screen = "bio"
    /\ BioPageProps(payload).links = Get(P_bio, K_links)
    /\ Len(BioPageProps(payload).links.a) = 2

\* the bio page with the two entries is on the screen
C12_Witness ==
  /\ windowHash = MixedEntriesAddress /\ mounted /\ ~effectPending
  /\ Screen = "bio"
  /\ FullyPopulated(BioPageProps(payload).links.a[1])
  /\ Get(BioPageProps(payload).links.a[2], K_url) = JStr(<<>>)

\* what the resolution of an address comes to: no "p" parameter (or an empty
\* one) in the fragment the router hands over, a token that does not decode
\* (decodePayload throws or returns nothing), a decoded value of a rejected
\* shape, or a valid payload
ResolutionOf(address) ==
  Bind(ExtractToken(RouterLocation(address).hash), LAMBDA encoded :
    IF ~encoded.ok THEN "no token"
    ELSE Bind(decodePayload(JStr(encoded.v)), LAMBDA decoded :
           IF decoded.kind = "throw" \/ ~Truthy(decoded.v) THEN "not decoded"
           ELSE IF ~ValidatePayload(decoded.v) THEN "bad shape"
           ELSE "valid"))

\* a step in which the effect of the Viewer runs
EffectRuns == effectPending /\ ~effectPending'

\* C13: every run of the effect ends with the status "ready" or "error",
\* never "loading": "error" when the "p" parameter is missing or empty, when
\* the token does not decode or decoding throws, and when the shape is
\* rejected; "ready" only for a decoded payload of a valid shape.
C13_EffectEndsReadyOrError ==
  [][EffectRuns =>
       \E resolution \in {ResolutionOf(windowHash)} :
         /\ status' \in {"ready", "error"}
         /\ resolution \in {"no token", "not decoded", "bad shape"} => status' = "error"
         /\ status' = "ready" <=> resolution = "valid"
         /\ status' = "ready" => payload' # Null]_vars

\* the effect, started in "loading", has run for a token that is base64 of
\* text that is not JSON
C13_Witness ==
  /\ windowHash = ToCodes("#/go#?p=aGVsbG8=")
  /\ mounted /\ ~effectPending /\ calls = 1
  /\ status = "error"
  /\ ResolutionOf(windowHash) = "not decoded"

\* C14 as stated: once the status of a mounted Viewer is "error", no later
\* step of that Viewer (a change of the location and the run of the effect
\* that follows it included) sets the status to "ready", shows anything but
\* the error screen, or makes a navigation.
C14_ErrorIsTerminal ==
  [][(mounted /\ status = "error" /\ mounted') =>
       /\ status' = "error"
       /\ Screen' = "error"
       /\ \A i \in 1..Len(NewCalls) : ~IsNavigation(NewCalls[i])]_vars

\* C15 as stated: whatever the token decodes to, the Viewer shows the error
\* screen or one of its regular screens; rendering never throws.
C15_NeverUnhandledException ==
  mounted =>
    Screen \in {"loading", "error", "bridge", "bio", "direct", "fallback"}

\* the addresses generateParaLink builds for the two valid payloads
GeneratedAddresses == {StandardAddress(TokenOf(d)) : d \in {P_direct, P_bio}}

\* C19 as stated: the token is taken from the fragment of the address as the
\* browser holds it, so when the effect has run for an address of the form
\* '#/go?p=<token>' with a valid token the status is "ready" and the payload
\* is stored.
C19_GeneratedAddressReachesReady ==
  (windowHash \in GeneratedAddresses /\ mounted /\ ~effectPending) =>
    /\ status = "ready"
    /\ payload \in {P_direct, P_bio}

\* the entries of the bio page on the screen
BioEntries == Get(payload, K_links).a

\* the step is one handler invocation made from the given screen of an
\* accepted bio page
BioStepFrom(screen) == AcceptedBio /\ Screen = screen /\ calls' = calls + 1

TechniqueOf(evs) == [i \in 1..Len(evs) |-> <<evs[i].op, evs[i].target>>]

\* openInSystemBrowser, tabulated over the browsers of Init
Techniques ==
  {[browser |-> b,
    technique |-> TechniqueOf(openInSystemBrowser(Undefined, b[1], b[2], 1))] :
     b \in Browsers}

\* the calls made by handler invocation c, in order
CallEvents(c) == SelectSeq(trace, LAMBDA e : e.call = c)

\* the invocations of handler h that made a call
CallsOf(h) == {trace[i].call : i \in {j \in 1..Len(trace) : trace[j].handler = h}}

\* invocation c has made a navigation
Navigated(c) == \E i \in Navigations : trace[i].call = c

\* the urls invocation c has passed on
UrlsOf(c) == {trace[i].url : i \in {j \in 1..Len(trace) : trace[j].call = c}} \ {Undefined}

C22_TechniqueIndependentOfApp ==
  Classification.isInAppBrowser =>
    \A c \in CallsOf("handleBridgeConfirm") :
      \A t \in Techniques :
        \A k \in Classifications :
          (k.browser = t.browser /\ k.env.isInAppBrowser /\ k.env.os = Classification.os) =>
            t.technique = TechniqueOf(CallEvents(c))

\* the confirmation was tapped in an app on Android and every timeout it
\* has set has run, the document still being there
AndroidHandoffSettled ==
  /\ Classification.os = "ANDROID" /\ Classification.isInAppBrowser
  /\ \E c \in CallsOf("handleBridgeConfirm") : Navigated(c)
  /\ page = "alive"
  /\ timers = {}

\* C23 as stated: after the Android handoff, when the document is not
\* navigated away, the fallback callback has run and has opened the target
\* in a new tab, once; it makes no navigation when the document is gone.
C23_AndroidFallbackOpensTarget ==
  /\ AndroidHandoffSettled =>
       \A c \in CallsOf("handleBridgeConfirm") :
         Cardinality({i \in Navigations :
                        /\ trace[i].handler = "timeout"
                        /\ trace[i].op = "window.open"
                        /\ {trace[i].url} = UrlsOf(c)}) = 1
  /\ page = "gone" =>
       \A i \in Navigations : trace[i].handler # "timeout"

\* the gate decisions made so far
GateCalls == CallsOf("handleLinkOpen") \cup CallsOf("effect")

\* C25 as stated: one gate decision computes the classification once:
\* detectEnvironment is called exactly once in every invocation of
\* shouldShowBrowserTransition.
C25_ClassificationComputedOnce ==
  \A c \in GateCalls :
    Cardinality({i \in 1..Len(trace) :
                   trace[i].call = c /\ trace[i].op = "detectEnvironment"}) = 1

\* C26 as stated: once the confirmation tap has executed the technique, the
\* confirmation screen is not shown any more, and the technique is not
\* executed a second time.
C26_ConfirmationLeftAfterTap ==
  (\E c \in CallsOf("handleBridgeConfirm") : Navigated(c)) =>
    /\ Screen # "bridge"
    /\ Cardinality({c \in CallsOf("handleBridgeConfirm") : Navigated(c)}) = 1

\* C27: the call that navigates is made inside the handler of the tap,
\* before the handler defers anything: no navigation is made from a
\* timeout, no setTimeout of the confirmation handler precedes its
\* navigation, and what runs from a timeout is the removal of an anchor.
C27_NavigationInsideTapHandler ==
  /\ \A i \in Navigations :
       /\ trace[i].handler # "timeout"
       /\ trace[i].handler = "handleBridgeConfirm" =>
            \A j \in 1..(i - 1) :
              trace[j].call = trace[i].call => trace[j].op # "setTimeout"
  /\ \A i \in 1..Len(trace) :
       trace[i].handler = "timeout" => trace[i].op = "removeChild"

\* the confirmation tap has clicked an anchor and deferred its removal
C27_Witness ==
  \E i \in Navigations :
    /\ trace[i].handler = "handleBridgeConfirm"
    /\ trace[i].op = "click"
    /\ \E j \in (i + 1)..Len(trace) :
         trace[j].call = trace[i].call /\ trace[j].op = "setTimeout"

\* timeouts that were set run while the document can still run handlers
SpecFair == Spec /\ WF_vars(TimerFire)

\* the removal of an anchor is attempted in this step
RemovalAttempted(a) ==
  /\ Len(trace') = Len(trace) + 1
  /\ trace'[Len(trace')].op = "removeChild"
  /\ trace'[Len(trace')].anchor = a

C31_FlagDoesNotAffectControlFlow ==
  [][EffectRuns =>
       \E other \in {ResolveEffect(RouterLocation(windowHash).hash, userAgent, msStream, ~dev)} :
         /\ status' = other.status
         /\ payload' = IF other.stored THEN other.payload ELSE payload
         /\ showBridge' = (other.bridge \/ showBridge)
         /\ bridgeTargetUrl' = IF other.bridge THEN other.url ELSE bridgeTargetUrl
         /\ trace' = trace \o Stamp(other.ev, "effect", calls + 1)
         /\ page' = IF \E i \in 1..Len(other.ev) : ReplacesDocument(other.ev[i])
                    THEN "navigating" ELSE page
         /\ dev' = dev]_vars

\* a development build has logged the resolution of a direct link and has
\* redirected to it
C31_Witness ==
  /\ dev
  /\ Entry("log", "[Viewer] Direct link. Needs transition:") \in console
  /\ status = "ready"
  /\ \E i \in Navigations : trace[i].handler = "effect"

\* the urls the resolved payload pl offers: the url of a direct link, the
\* urls of the entries of a bio page
PayloadUrls(pl) ==
  IF Get(pl, K_mode) = JStr(S_bio) /\ IsArray(Get(pl, K_links))
  THEN {Get(Get(pl, K_links).a[i], K_url) : i \in 1..Len(Get(pl, K_links).a)}
  ELSE {Get(pl, K_url)}

\* C34 as stated: whenever the confirmation screen is displayed, its target
\* is a url of the payload currently resolved, also after the location has
\* changed and the effect has run again.
C34_ConfirmationTargetsCurrentPayload ==
  (mounted /\ ~effectPending /\ Screen = "bridge") =>
    bridgeTargetUrl \in PayloadUrls(payload)

\* a url that is the empty string, or no string at all
EmptyUrl(u) == ~IsString(u) \/ u.s = <<>>

\* C35 as stated: no navigation is ever made with an empty target: the
\* location is not assigned, no window is opened and no anchor is clicked
\* with the empty url, in an in-app browser and in a standalone one.
C35_NoNavigationToEmptyUrl ==
  \A i \in Navigations : ~EmptyUrl(trace[i].url)

\* C37: in every state of the mounted Viewer the confirmation screen, the
\* bio page and the direct-link button are rendered only when the status is
\* "ready" and the payload is a stored value that passed the shape
\* validation; with the status "loading" or "error" the loading or the
\* invalid-link screen is rendered, whatever payload, showBridge and
\* bridgeTargetUrl hold.
C37_DecodedDataRenderedOnlyWhenReady ==
  mounted =>
    /\ Screen \notin {"loading", "error"} =>
         /\ status = "ready"
         /\ payload # Null
         /\ Truthy(payload)
         /\ ValidatePayload(payload)
    /\ status \in {"loading", "error"} => Screen = status

\* the invalid-link screen is shown while the payload and the confirmation
\* of an earlier resolution are still held
C37_Witness ==
  /\ mounted /\ ~effectPending
  /\ status = "error"
  /\ Screen = "error"
  /\ payload # Null
  /\ showBridge
  /\ Truthy(bridgeTargetUrl)

(***************************************************************************)
(* Properties of the codec (SpecCodec)                                     *)
(***************************************************************************)
\* a descriptor was encoded, transported and decoded
RoundTripDone == phase = "decoded" /\ descriptor # Undefined

\* the token holds one of the characters encodeURIComponent escapes
HasEscapedUnit(s) == \E i \in 1..Len(s) : ~IsUriUnreserved(s[i])

\* C7 as stated: a valid descriptor that is encoded and then decoded, with
\* nothing done to the token in between, comes back structurally equal.
C7_RoundTrip ==
  (RoundTripDone /\ hops = 0) => result = Returned(descriptor)

\* C8 as stated, for the tokens that decode: the token percent-encoded once
\* or twice decodes, and to what the token itself decodes to.
C8_DecodesOnceAndTwiceEncoded ==
  (RoundTripDone /\ hops \in {1, 2} /\ decodePayload(token) # Returned(Null)) =>
    result = decodePayload(token)

\* C8, amended: the token percent-encoded once decodes to what the token
\* decodes to; percent-encoded twice or more it does so only when
\* percent-encoding leaves the token as it is (no '+', '/' or '=' in it),
\* and decodes to null otherwise.
C8_DecodeTolerance ==
  RoundTripDone =>
    IF hops <= 1 \/ ~HasEscapedUnit(token.s)
    THEN result = decodePayload(token)
    ELSE result = Returned(Null)

\* a token with an escaped character, percent-encoded twice, decoded to null
C8_Witness ==
  /\ RoundTripDone /\ hops = 2
  /\ HasEscapedUnit(token.s)
  /\ decodePayload(token) # Returned(Null)
  /\ result = Returned(Null)

\* the inputs C9 lists: not a string, the empty string, text that is not
\* base64 (nor is its percent-decoding), text with a malformed percent
\* escape, base64 of text that is not JSON
ListedAsRejected(w) ==
  \/ ~IsString(w)
  \/ w.s = <<>>
  \/ ~decodeURIComponent(w.s).ok
  \/ /\ ~atob(w.s).ok
     /\ \A d \in {decodeURIComponent(w.s)} : ~d.ok \/ ~atob(d.v).ok
  \/ \E json \in {atob(w.s)} : json.ok /\ ~JSONParse(json.v).ok

\* C9: decodePayload returns and never throws, and it returns null for
\* every input listed as rejected.
C9_DecodeNeverThrows ==
  phase = "decoded" =>
    /\ result.kind = "return"
    /\ ListedAsRejected(wire) => result = Returned(Null)

\* text with a malformed percent escape was decoded to null
C9_Witness ==
  /\ phase = "decoded"
  /\ wire = Text("%zz")
  /\ result = Returned(Null)

\* generateParaLink has been called for the descriptor
LinkGenerated ==
  descriptor # Undefined /\ phase \in {"encoded", "received", "decoded"}

\* C16 as stated: generateParaLink returns '<origin>/#/go?p=<token>' with a
\* non-empty token, or the empty string when encoding fails: never an
\* address with an empty token.
C16_LinkCarriesTokenOrIsEmpty ==
  LinkGenerated =>
    IF token.s = <<>>
    THEN link = <<>>
    ELSE link \in {getCleanOrigin(href) \o ToCodes("/#/go?p=") \o token.s : href \in Hrefs}

\* the form of scenario A: "example.com" typed as url, no title
ExampleForm ==
  [tab |-> "direct", directUrl |-> ToCodes("example.com"), directTitle |-> <<>>,
   bioName |-> <<>>, bioLinks |-> <<[title |-> <<>>, url |-> <<>>]>>]

\* the descriptor of scenario A as written, and as it is said to come back
D_example == JObj(<<K_mode, K_url>>, <<JStr(S_direct), Text("example.com")>>)
P_example ==
  JObj(<<K_mode, K_url, K_title>>,
       <<JStr(S_direct), Text("https://example.com"), Text("Content")>>)

\* C17 as stated: the descriptor {mode:"direct", url:"example.com"}, encoded
\* and then decoded, comes back with the url 'https://example.com' and the
\* title 'Content'.
C17_CodecNormalizes ==
  (RoundTripDone /\ hops = 0 /\ descriptor = D_example) =>
    result = Returned(P_example)

\* C17, amended: handleGenerate turns the form with the url 'example.com'
\* and no title into {mode:"direct", url:"https://example.com",
\* title:"Content"}, and that payload comes back from encoding and decoding
\* as it is; the codec changes nothing: {mode:"direct", url:"example.com"}
\* comes back as it is, too.
C17_DashboardNormalizes ==
  /\ (form = ExampleForm /\ phase # "form") =>
       /\ phase # "dropped"
       /\ descriptor = P_example
  /\ (RoundTripDone /\ hops = 0 /\ descriptor \in {D_example, P_example}) =>
       result = Returned(descriptor)

\* scenario A went from the form through the codec
C17_Witness ==
  /\ form = ExampleForm
  /\ phase = "decoded" /\ hops = 0
  /\ result = Returned(P_example)

\* the urls of the generated payload, and the entered urls they were made
\* from, in order
GeneratedUrls ==
  IF form.tab = "direct" THEN <<Get(descriptor, K_url).s>>
  ELSE [i \in 1..Len(Get(descriptor, K_links).a) |->
          Get(Get(descriptor, K_links).a[i], K_url).s]
EnteredUrls ==
  IF form.tab = "direct" THEN <<Trim(form.directUrl)>>
  ELSE [i \in 1..Len(SelectSeq(form.bioLinks, IsValidLink)) |->
          Trim(SelectSeq(form.bioLinks, IsValidLink)[i].url)]

\* handleGenerate has built a payload from the form
Generated == form # Undefined /\ phase \notin {"form", "dropped"}

\* u starts with a scheme: a letter, then letters, digits, '+', '-' or '.',
\* then ':'
IsSchemeUnit(c) ==
  \/ c \in 65..90 \/ c \in 97..122
  \/ c \in 48..57 \/ c \in {43, 45, 46}
HasScheme(u) ==
  \E i \in 2..Len(u) :
    /\ u[i] = 58
    /\ u[1] \in (65..90) \cup (97..122)
    /\ \A j \in 1..(i - 1) : IsSchemeUnit(u[j])

\* u starts with 'http://' or 'https://', in any case
StartsWithHttp(u) ==
  \/ Len(u) >= 7 /\ ToLowerCase(SubSeq(u, 1, 7)) = ToCodes("http://")
  \/ Len(u) >= 8 /\ ToLowerCase(SubSeq(u, 1, 8)) = ToCodes("https://")

\* C18 as stated: an entered url that has a scheme is left as it is, one
\* without a scheme gets 'https://' in front once, and normalizing the
\* result again changes nothing.
C18_AnySchemeIsKept ==
  Generated =>
    /\ Len(GeneratedUrls) = Len(EnteredUrls)
    /\ \A i \in 1..Len(EnteredUrls) :
         /\ HasScheme(EnteredUrls[i]) => GeneratedUrls[i] = EnteredUrls[i]
         /\ ~HasScheme(EnteredUrls[i]) =>
              GeneratedUrls[i] = ToCodes("https://") \o EnteredUrls[i]
         /\ NormalizeUrl(GeneratedUrls[i]) = GeneratedUrls[i]

\* C18, amended: an entered url (trimmed) that starts with 'http://' or
\* 'https://', in any case, is left as it is; every other one, whether it
\* has another scheme or none, gets 'https://' in front once; normalizing
\* the result again changes nothing.
C18_HttpSchemeIsKept ==
  Generated =>
    /\ Len(GeneratedUrls) = Len(EnteredUrls)
    /\ \A i \in 1..Len(EnteredUrls) :
         /\ StartsWithHttp(EnteredUrls[i]) => GeneratedUrls[i] = EnteredUrls[i]
         /\ ~StartsWithHttp(EnteredUrls[i]) =>
              GeneratedUrls[i] = ToCodes("https://") \o EnteredUrls[i]
         /\ NormalizeUrl(GeneratedUrls[i]) = GeneratedUrls[i]
         /\ NormalizeUrl(NormalizeUrl(EnteredUrls[i])) = NormalizeUrl(EnteredUrls[i])

\* a payload was generated from the url 'ftp://f.g'
C18_Witness ==
  /\ Generated /\ form.tab = "direct"
  /\ form.directUrl = ToCodes("ftp://f.g")
  /\ GeneratedUrls = <<ToCodes("https://ftp://f.g")>>

\* the serialization of data holds a code unit that btoa rejects
Unencodable(data) ==
  \E json \in {JSONStringify(data)} : \E i \in 1..Len(json) : json[i] > 255

\* C30: encodePayload never raises: for every descriptor it returns a
\* string, and that string is the empty token '' exactly when the
\* serialization cannot be base64-encoded.
C30_EncodeReturnsTokenOrEmpty ==
  LinkGenerated =>
    \E r \in {encodePayload(descriptor)} :
      /\ r.kind = "return"
      /\ IsString(r.v)
      /\ token = r.v
      /\ (r.v.s = <<>>) <=> Unencodable(descriptor)

\* a descriptor whose serialization cannot be encoded got the empty token
C30_Witness ==
  LinkGenerated /\ Unencodable(descriptor) /\ token = JStr(<<>>)

(***************************************************************************)
(* Properties of the classification (SpecProbe)                            *)
(***************************************************************************)
\* detectEnvironment() returned a classification
Classified == detected.kind = "return"

MentionsAndroid(s) == IncludesIgnoreCase(s, ToCodes("android"))

\* C28 as stated: Android is checked first, then iOS, then Desktop is the
\* default: a user agent with both 'android' and an iPhone/iPad/iPod token
\* is classified Android, a user agent with neither, the empty string
\* included, is classified Desktop, and no classification has os Unknown.
C28_AndroidThenIosThenDesktop ==
  detected.kind # "none" =>
    /\ (MentionsAndroid(navigator.userAgent) /\ AppleDeviceTest(navigator.userAgent)) =>
         Classified /\ detected.v.os = "ANDROID"
    /\ (~MentionsAndroid(navigator.userAgent) /\ ~AppleDeviceTest(navigator.userAgent)) =>
         Classified /\ detected.v.os = "DESKTOP"
    /\ Classified => detected.v.os \in {"ANDROID", "IOS", "DESKTOP"}

\* signature a of IN_APP_REGEX occurs at position i of s
SignatureAt(s, a, i) == MatchesAtIgnoreCase(s, InAppSignatures[a], i)

\* C29: in every classification returned, isInAppBrowser is true exactly
\* when some signature occurs in the user agent; appName is then the text
\* of the user agent at the leftmost occurrence, as written there, and is
\* "Web" otherwise; so isInAppBrowser holds exactly when appName differs
\* from "Web" and exactly when browserType is IN_APP.
C29_AppNameIsLeftmostMatchText ==
  Classified =>
    \E s \in {EffectiveUserAgent(navigator).s} : \E env \in {detected.v} :
      LET Positions == 1..Len(s)
          Alternatives == 1..Len(InAppSignatures)
      IN  /\ env.isInAppBrowser <=>
               \E i \in Positions : \E a \in Alternatives : SignatureAt(s, a, i)
          /\ env.isInAppBrowser =>
               \E i \in Positions : \E a \in Alternatives :
                 /\ SignatureAt(s, a, i)
                 /\ \A j \in 1..(i - 1) : \A b \in Alternatives : ~SignatureAt(s, b, j)
                 /\ env.appName = SubSeq(s, i, i + Len(InAppSignatures[a]) - 1)
          /\ ~env.isInAppBrowser => env.appName = ToCodes("Web")
          /\ env.isInAppBrowser <=> env.appName # ToCodes("Web")
          /\ env.isInAppBrowser <=> env.browserType = "IN_APP"

\* a classification whose appName is written differently from every
\* signature of the pattern, taken from a user agent with two signatures
C29_Witness ==
  /\ Classified
  /\ detected.v.isInAppBrowser
  /\ detected.v.appName = ToCodes("instagram")
  /\ IncludesIgnoreCase(navigator.userAgent, ToCodes("FBAN"))

\* C32 as stated: failure detail is logged only in a build with the DEV
\* flag: in a production build no failure path of encodePayload or
\* decodePayload writes on the console.
C32_NoDiagnosticsInProduction ==
  ~dev => console = {}

\* the fragment of an address, with its '#'
FragmentOf(address) == SubstringFrom(address, IndexOf(address, <<35>>))

\* C33 as stated: the address generateParaLink returns for a valid
\* descriptor, opened in the Viewer, reaches "ready" with a payload equal to
\* the descriptor, whatever characters the token holds.
C33_GeneratedLinkRoundTrips ==
  (LinkGenerated /\ token.s # <<>> /\ ValidatePayload(descriptor)) =>
    \E fragment \in {FragmentOf(link)} :
      /\ RoutesToViewer(fragment)
      /\ \E o \in {ResolveEffect(RouterLocation(fragment).hash,
                                 ToCodes("Mozilla/5.0 (Windows NT 10.0) Chrome/120"),
                                 FALSE, dev)} :
           o.status = "ready" /\ o.stored /\ o.payload = descriptor

\* "Generate" was pressed on the form
FormSubmitted == form # Undefined /\ phase # "form"

\* the form has nothing to generate a link from: a blank direct url, or no
\* entry of the bio tab with both a title and a url
NothingToGenerate ==
  IF form.tab = "direct"
  THEN \A i \in 1..Len(form.directUrl) : IsTrimSpace(form.directUrl[i])
  ELSE \A i \in 1..Len(form.bioLinks) :
         \/ \A k \in 1..Len(form.bioLinks[i].url) : IsTrimSpace(form.bioLinks[i].url[k])
         \/ \A k \in 1..Len(form.bioLinks[i].title) : IsTrimSpace(form.bioLinks[i].title[k])

\* a string value that is not empty and has no white space at its ends
TrimmedText(x) ==
  /\ IsString(x)
  /\ x.s # <<>>
  /\ ~IsTrimSpace(x.s[1])
  /\ ~IsTrimSpace(x.s[Len(x.s)])

====
